---- MODULE Spec2Model ----
(***************************************************************************)
(* Stream Pro: the resolution and adaptive fallback playback engine.       *)
(*                                                                         *)
(* resolver.js (parseInput, callResolve, resolveMedia, detectRangeSupport, *)
(* tryLoadWithFallback, _tryLoadSingle), config.js (buildProxy,            *)
(* hostNeedsResolve, detectCodecSupport) and the load path of player.js    *)
(* (loadMedia, stopMedia, updateMeta, _saveToHistory).                     *)
(*                                                                         *)
(* JavaScript runs one task at a time.  A load cycle is cut at its await   *)
(* points: an event action (a response, a timer, a sink event) settles the *)
(* awaited promise and queues the cycle on the microtask queue mq; the     *)
(* Continue action of the head of mq then runs the code up to the next     *)
(* await.  No event is handled while mq is not empty.                      *)
(*                                                                         *)
(* A URL string is a record: w is the number of times the string was       *)
(* wrapped by buildProxy, ws tells whether it carries surrounding white    *)
(* space, sch, h and p are the scheme, host and path of the innermost URL. *)
(* Two records are equal exactly when the strings are.                     *)
(***************************************************************************)
EXTENDS Integers, Sequences, FiniteSets, TLC

\* ------------------------------------------------------------------ bounds
\* loadMedia calls in one behaviour
MaxCycles == 2
\* the duration of the media, in seconds
MaxPos == 4
\* safeSeek calls that reach the speculative path in one behaviour
MaxSeeks == 2
\* the events that may wait on the element when the user toggles play
MaxEvents == 2

\* the clock stops at this day
MaxNow == 9

\* ------------------------------------------------------- program constants
MAX_HISTORY == 80
\* safeSeek: a landing within 2 seconds of the target counts as close
SEEK_TOLERANCE == 2

\* resumeIfNeeded: a saved position is resumed when it is past 5 s
RESUME_MIN == 5

\* 7 * 86400000 ms, in days
CACHE_TTL == 7

\* ---------------------------------------------------------------- strings
Str(ws, w, sch, h, p) == [ws |-> ws, w |-> w, sch |-> sch, h |-> h, p |-> p]

\* the empty string; null and "" are both falsy in the tests the code makes
NoUrl == Str(FALSE, 0, "", "", "")

Paths == {"", "/v.mp4", "/v.avi", "/s.m3u8", "/d/x", "/u/ab", "/api/file/ab",
          "/r.mp4", "/f.torrent", "/f.torrent?x=1", "/f.torrent.mp4", "/m.mpd",
          "/v.flv", "/V.WMV", "/v.mkv", "/x265.mkv", "/v.10bit.mp4",
          "/d/x?r=pixeldrain.com/u/ab"}

\* String.prototype.trim
trim(t) == [t EXCEPT !.ws = FALSE]

\* /\.m3u8(\?|#|$)/i : encodeURIComponent keeps ".m3u8" at the end of a
\* wrapped string, so the test also matches a wrapped manifest URL
isHLSUrl(u) == u.p = "/s.m3u8" /\ ~u.ws

\* /\.mpd(\?|#|$)/i
isDASHUrl(u) == u.p = "/m.mpd" /\ ~u.ws

\* mutant: no text is a torrent file
NeverTorrentText(u) == FALSE

\* /\.torrent(\?|#|$)/i : encodeURIComponent turns the "?" of a wrapped
\* string into %3F
IsTorrentText(u) == (u.p = "/f.torrent" /\ ~u.ws) \/ (u.p = "/f.torrent?x=1" /\ u.w = 0)

\* /^https?:\/\//i  (a wrapped string starts with the proxy's https://)
HasHttpScheme(u) == ~u.ws /\ (u.w > 0 \/ u.sch \in {"http://", "https://"})

\* new URL(u) parses: the string is absolute
Parses(u) == u.w > 0 \/ u.sch \in {"http://", "https://", "blob:", "magnet:"}

\* hostname of new URL(u); the proxy's own host for a wrapped string
ProxyHost == "proxy.netlify.app"
HostOf(u) == IF u.w > 0 THEN ProxyHost ELSE IF u.sch \in {"http://", "https://"} THEN u.h ELSE ""

\* the host names of the model
Hosts == {"", "cdn.example", "gofile.io", "store1.gofile.io", "mega.nz", "pixeldrain.com",
          "www.google.com", "doodstreamwish.com", ProxyHost}

\* String.prototype.includes: the keywords of detectProvider's rules that
\* occur in host name h
Keywords(h) ==
  CASE h \in {"gofile.io", "store1.gofile.io"} -> {"gofile.io"}
    [] h = "mega.nz" -> {"mega.nz"}
    [] h = "pixeldrain.com" -> {"pixeldrain.com"}
    [] h = "www.google.com" -> {"google.com"}
    [] h = "doodstreamwish.com" -> {"dood", "streamwish", "wish"}
    [] OTHER -> {}

\* RegExp.prototype.test: the patterns of HOSTS_NEED_RESOLVE that match host name h
Patterns(h) ==
  CASE h = "gofile.io" -> {"gofile\\.io"}
    [] h = "store1.gofile.io" -> {"gofile\\.io", "store\\d*\\.gofile\\.io"}
    [] h = "mega.nz" -> {"mega\\.nz"}
    [] h = "pixeldrain.com" -> {"pixeldrain\\.com"}
    [] h = "doodstreamwish.com" -> {"streamwish\\."}
    [] OTHER -> {}

HOSTS_NEED_RESOLVE ==
  {"gofile\\.io", "store\\d*\\.gofile\\.io", "drive\\.google\\.com", "docs\\.google\\.com",
   "drive\\.usercontent\\.google\\.com", "mega\\.nz", "mega\\.co\\.nz", "pixeldrain\\.com",
   "mediafire\\.com", "megaup\\.net", "1fichier\\.com", "krakenfiles\\.com", "send\\.cm",
   "streamtape\\.", "strtape\\.", "doodstream\\.", "dood\\.\\w+", "filemoon\\.", "streamwish\\.",
   "mp4upload\\.com", "mixdrop\\.", "vidoza\\.", "voe\\.\\w+", "upstream\\.", "filelions\\.",
   "vtube\\.", "vtbe\\.", "hexupload\\.", "racaty\\.", "usersdrive\\.com", "buzzheavier\\.com",
   "bfrm\\.io"}

hostNeedsResolve(u) == Parses(u) /\ Patterns(HostOf(u)) \cap HOSTS_NEED_RESOLVE # {}

\* `${base}/?url=${encodeURIComponent(url)}` : PROXY_URL is not empty
buildProxy(u) == [u EXCEPT !.w = @ + 1]

\* the part of a text that holds "pixeldrain.com/u/ab" in itself
HoldsPdLink(t) == t = "/d/x?r=pixeldrain.com/u/ab"

\* PixelDrainCache.getId: the two URL shapes, matched anywhere in String(url);
\* "/" is escaped in a wrapped string
getId(u) ==
  IF u.w = 0 /\ \/ u.h = "pixeldrain.com" /\ u.p \in {"/u/ab", "/api/file/ab"}
                \/ HoldsPdLink(u.p)
                \/ HoldsPdLink(u.h)
  THEN "ab" ELSE ""

\* `https://pixeldrain.com/api/file/${id}`
PdApiUrl(id) ==
  Str(FALSE, 0, "https://", "pixeldrain.com", IF id = "ab" THEN "/api/file/ab" ELSE "/api/file/")

Rule(keys, tag) == [keys |-> keys, tag |-> tag]

\* detectProvider, lines 48-71: the rules in table order
ProviderRules ==
  << Rule({"gofile.io"}, "GoFile"),
     Rule({"google.com", "googleusercontent.com"}, "Google Drive"),
     Rule({"mega.nz", "mega.co.nz"}, "MEGA"),
     Rule({"pixeldrain.com"}, "PixelDrain"),
     Rule({"mediafire.com"}, "MediaFire"),
     Rule({"megaup.net"}, "MegaUp"),
     Rule({"1fichier.com"}, "1Fichier"),
     Rule({"krakenfiles.com"}, "Krakenfiles"),
     Rule({"send.cm"}, "Send.cm"),
     Rule({"streamtape", "strtape"}, "StreamTape"),
     Rule({"dood", "ds2play", "d0"}, "DoodStream"),
     Rule({"filemoon"}, "FileMoon"),
     Rule({"streamwish", "wish"}, "StreamWish"),
     Rule({"mp4upload"}, "Mp4Upload"),
     Rule({"mixdrop", "mixdrp"}, "MixDrop"),
     Rule({"vidoza"}, "Vidoza"),
     Rule({"voe."}, "Voe"),
     Rule({"upstream"}, "Upstream"),
     Rule({"filelions", "lions"}, "FileLions"),
     Rule({"vtube", "vtbe"}, "VTube"),
     Rule({"hexupload"}, "HexUpload"),
     Rule({"racaty"}, "Racaty"),
     Rule({"usersdrive"}, "UsersDrive"),
     Rule({"buzzheavier", "bfrm.io"}, "Buzzheavier") >>

\* mutant: the last rule that matches wins
RECURSIVE ScanRulesLast(_, _)
ScanRulesLast(h, i) ==
  IF i > Len(ProviderRules) THEN ""
  ELSE LET later == ScanRulesLast(h, i + 1) IN
       IF later # "" THEN later
       ELSE IF ProviderRules[i].keys \cap Keywords(h) # {} THEN ProviderRules[i].tag ELSE ""

\* the if statements from rule i on: the tag returned, "" when none returns
RECURSIVE ScanRules(_, _)
ScanRules(h, i) ==
  IF i > Len(ProviderRules) THEN ""
  ELSE IF ProviderRules[i].keys \cap Keywords(h) # {} THEN ProviderRules[i].tag
  ELSE ScanRules(h, i + 1)

detectProvider(u) ==
  LET h == HostOf(u)
      tag == ScanRules(h, 1)
  IN
  IF tag # "" THEN tag
  ELSE IF isHLSUrl(u) THEN "HLS"
  ELSE IF isDASHUrl(u) THEN "DASH"
  ELSE "Direct"

\* mutant: the text is left as it is
NotPrefixed(u) == u

\* "https://" + u on a text without http scheme, not a blob handle; the
\* first segment of a text without host becomes the host
Prefixed(u) ==
  IF u.h = "" THEN [u EXCEPT !.sch = "https://", !.h = u.p, !.p = ""]
  ELSE [u EXCEPT !.sch = "https://"]

NoParse == [kind |-> "none", url |-> NoUrl, directURL |-> NoUrl, provider |-> "", pdId |-> "",
            torrentId |-> NoUrl]

IsBlank(u) == u.w = 0 /\ u.sch = "" /\ u.h = "" /\ u.p = ""

parseInput(raw) ==
  LET u == trim(raw) IN
  IF IsBlank(u) THEN NoParse
  ELSE IF u.w = 0 /\ u.sch = "magnet:"
    THEN [NoParse EXCEPT !.kind = "torrent", !.torrentId = u, !.provider = "Torrent",
                         !.directURL = u]
  ELSE IF IsTorrentText(u)
    THEN [NoParse EXCEPT !.kind = "torrent", !.torrentId = u, !.provider = "Torrent",
                         !.directURL = u]
  ELSE LET n == IF ~HasHttpScheme(u) /\ ~(u.w = 0 /\ u.sch = "blob:")
                THEN Prefixed(u) ELSE u
       IN [NoParse EXCEPT !.kind = "url", !.url = n, !.directURL = n,
                          !.provider = detectProvider(n), !.pdId = getId(n)]

\* pathname.toLowerCase(), then the part after the last dot
ExtOfPath(p) ==
  CASE p \in {"/v.mp4", "/r.mp4", "/f.torrent.mp4", "/v.10bit.mp4"} -> "mp4"
    [] p = "/v.avi" -> "avi"
    [] p = "/v.flv" -> "flv"
    [] p = "/V.WMV" -> "wmv"
    [] p \in {"/v.mkv", "/x265.mkv"} -> "mkv"
    [] p = "/s.m3u8" -> "m3u8"
    [] p = "/m.mpd" -> "mpd"
    [] p = "/f.torrent" -> "torrent"
    [] OTHER -> ""

\* getExt: "" when new URL(url) throws; the path of a wrapped string is "/";
\* URL.pathname leaves the query out
getExt(u) ==
  IF ~Parses(u) \/ u.w > 0 THEN ""
  ELSE IF u.p = "/f.torrent?x=1" THEN "torrent"
  ELSE ExtOfPath(u.p)

\* String.prototype.toUpperCase on an extension
Upper(e) ==
  CASE e = "mp4" -> "MP4" [] e = "avi" -> "AVI" [] e = "flv" -> "FLV" [] e = "wmv" -> "WMV"
    [] e = "mkv" -> "MKV" [] e = "m3u8" -> "M3U8" [] e = "mpd" -> "MPD"
    [] e = "torrent" -> "TORRENT" [] OTHER -> e

\* /x265|h\.?265|hevc/i and /10[\-\.]?bit/i on the whole string
HasHevcName(u) == u.p = "/x265.mkv"
HasTenBitName(u) == u.p = "/v.10bit.mp4"

AviWarning == "AVI tidak didukung browser. Gunakan VLC atau download file."
FlvWarning == "FLV tidak didukung browser. Gunakan VLC atau download file."
WmvWarning == "WMV tidak didukung browser. Gunakan VLC atau download file."
MkvWarning == "MKV mungkin tidak bisa diputar."
TenBitWarning == "10-bit video mungkin tidak didukung browser."
HevcWarning == "HEVC/x265 tidak didukung browser ini."
MegaWarning == "MEGA files are AES encrypted."

\* the mime types handed to detectCodecSupport, "" for none
Mimes == {"", "video/mp4", "video/hevc", "video/x-matroska"}

\* String.prototype.includes on a codec name
IsHevcCodec(c) == c \in {"HEVC/x265", "HEVC/x265 10-bit"}

\* lines 202-208: the record before any rule
BlankInfo(ext) ==
  [container |-> IF ext = "" THEN "unknown" ELSE Upper(ext), codec |-> "unknown",
   canPlay |-> TRUE, warning |-> "", needsSpecial |-> FALSE]

\* lines 213-219: the mime type names HEVC
HevcMimeRule(i, mimeType, caps) ==
  IF mimeType = "video/hevc"
  THEN [i EXCEPT !.codec = "HEVC/x265", !.canPlay = caps.hevc,
                 !.warning = IF caps.hevc THEN @ ELSE HevcWarning]
  ELSE i

\* lines 220-223: the mime type names Matroska
MatroskaMimeRule(i, mimeType) ==
  IF mimeType = "video/x-matroska"
  THEN [i EXCEPT !.container = "MKV", !.needsSpecial = TRUE]
  ELSE i

\* a browser that plays Matroska takes the warning away
MkvRuleClears(i, ext, caps) ==
  IF ext = "mkv"
  THEN [i EXCEPT !.container = "MKV", !.needsSpecial = TRUE,
                 !.warning = IF ~caps.mkv /\ ~caps.webm THEN MkvWarning ELSE ""]
  ELSE i

\* lines 227-236
MkvRule(i, ext, caps) ==
  IF ext = "mkv"
  THEN [i EXCEPT !.container = "MKV", !.needsSpecial = TRUE,
                 !.warning = IF ~caps.mkv /\ ~caps.webm /\ @ = "" THEN MkvWarning ELSE @]
  ELSE i

\* mutant: the container is refused without a word
UnsupportedSilent(i, ext, e, container, warning) ==
  IF ext = e
  THEN [i EXCEPT !.container = container, !.needsSpecial = TRUE, !.canPlay = FALSE]
  ELSE i

\* lines 238-257: a container no browser plays
UnsupportedRule(i, ext, e, container, warning) ==
  IF ext = e
  THEN [i EXCEPT !.container = container, !.needsSpecial = TRUE,
                 !.canPlay = FALSE, !.warning = warning]
  ELSE i

\* lines 260-267: the name hints at HEVC
HevcNameRule(i, u, caps) ==
  IF HasHevcName(u)
  THEN [i EXCEPT !.codec = "HEVC/x265",
                 !.canPlay = IF caps.hevc THEN @ ELSE FALSE,
                 !.warning = IF caps.hevc THEN @ ELSE HevcWarning]
  ELSE i

\* info.codec += " 10-bit"
TenBitCodec(c) == IF c = "HEVC/x265" THEN "HEVC/x265 10-bit" ELSE "unknown 10-bit"

\* lines 270-279: the name hints at 10-bit video
TenBitRule(i, u) ==
  IF HasTenBitName(u)
  THEN [i EXCEPT !.codec = TenBitCodec(@),
                 !.warning = IF ~IsHevcCodec(TenBitCodec(i.codec)) /\ @ = ""
                             THEN TenBitWarning ELSE @]
  ELSE i

\* detectCodecSupport: the rules in the order of the code; caps holds the
\* sink's answers to canPlayType for HEVC, Matroska with H.264 and WebM with VP9
detectCodecSupport(u, mimeType, caps) ==
  TenBitRule(
    HevcNameRule(
      UnsupportedRule(
        UnsupportedRule(
          UnsupportedRule(
            MkvRule(
              MatroskaMimeRule(
                HevcMimeRule(BlankInfo(getExt(u)), mimeType, caps),
                mimeType),
              getExt(u), caps),
            getExt(u), "avi", "AVI", AviWarning),
          getExt(u), "flv", "FLV", FlvWarning),
        getExt(u), "wmv", "WMV", WmvWarning),
      u, caps),
    u)

\* guessName: the last path segment, else the fallback
guessName(u, fallback) ==
  IF Parses(u) /\ u.w = 0 /\ u.p \notin {"", "/"} THEN u.p ELSE fallback

\* ------------------------------------------------------ resolve endpoint
\* a response body of the resolve endpoint
NoBody == [json |-> FALSE, resolved |-> FALSE, url |-> NoUrl, note |-> "", filename |-> ""]

CdnR == Str(FALSE, 0, "https://", "cdn.example", "/r.mp4")
CdnV == Str(FALSE, 0, "https://", "cdn.example", "/v.mp4")

Bodies ==
  {NoBody}
  \cup [json : {TRUE}, resolved : BOOLEAN, url : {NoUrl, CdnR},
        note : {"", "AES encrypted"}, filename : {""}]
  \cup {[json |-> TRUE, resolved |-> TRUE, url |-> CdnR, note |-> "direct link", filename |-> "movie.mp4"]}

\* what callResolve returns: ok = FALSE stands for null
NoResolve == [ok |-> FALSE, url |-> NoUrl, note |-> "", filename |-> ""]

\* mutant: a body with resolved: true and no url counts as a resolution
ResolveResultLoose(body) ==
  IF body.json /\ body.resolved
  THEN [ok |-> TRUE, url |-> body.url, note |-> body.note, filename |-> body.filename]
  ELSE NoResolve

\* callResolve, lines 122-146: the body parsed and normalized
ResolveResult(body) ==
  IF body.json /\ body.resolved /\ body.url # NoUrl
  THEN [ok |-> TRUE, url |-> body.url, note |-> body.note, filename |-> body.filename]
  ELSE NoResolve

\* String.prototype.includes("encrypted") on the texts of the model
IncludesEncrypted(s) == s \in {"AES encrypted", MegaWarning}

\* ------------------------------------------------------- metadata cache
\* no entry, no metadata (null); hit tells an entry from none, ts is the
\* day the entry was stored (0: no ts)
NoMeta == [name |-> "", type |-> "", hit |-> FALSE, ts |-> 0]

\* the metadata built from an answer of the info endpoint, not yet stored
Metas == {[name |-> "clip.mp4", type |-> "video/hevc", hit |-> TRUE, ts |-> 0]}

\* an entry is returned whatever its age
GetAnyAge(cache, t) == cache

\* PixelDrainCache.get at time t, on the one entry of the model
PixelDrainCacheGet(cache, t) ==
  IF cache.hit /\ cache.ts # 0 /\ (t - cache.ts) < CACHE_TTL THEN cache ELSE NoMeta

\* the entry is stored with no ts
SetUnstamped(meta, t) == meta

\* PixelDrainCache.set at time t
PixelDrainCacheSet(meta, t) == [meta EXCEPT !.ts = t]

\* ------------------------------------------------------------ resolveMedia
NoCodec == [container |-> "", codec |-> "", canPlay |-> TRUE, warning |-> "", needsSpecial |-> FALSE]

NoInfo ==
  [kind |-> "none", provider |-> "", url |-> NoUrl, directURL |-> NoUrl, playURL |-> NoUrl,
   id |-> NoUrl, title |-> "", needsResolve |-> FALSE, resolved |-> FALSE,
   codecInfo |-> NoCodec, pdId |-> "", warning |-> ""]

\* the codec advisor's warning replaces the warning already set
WarningCodecFirst(w, codecWarning) == IF codecWarning # "" THEN codecWarning ELSE w

\* resolveMedia lines 261-263: the codec advisor's warning is taken when no
\* warning is set yet
Warning(w, codecWarning) == IF codecWarning # "" /\ w = "" THEN codecWarning ELSE w

\* mutant: the direct URL is played as it is
PlayUrlDirect(needsResolve, pdId, directURL) == directURL

\* resolveMedia, lines 246-255: the play URL
PlayUrl(needsResolve, pdId, directURL) ==
  IF needsResolve \/ pdId # "" THEN buildProxy(directURL)
  ELSE IF isHLSUrl(directURL) THEN buildProxy(directURL)
  ELSE directURL

\* resolveMedia, from the parsed input, the metadata and callResolve's result
\* (rv is read only when the host needs resolution)
resolveMedia(raw, pdMeta, rv, caps) ==
  LET parsed == parseInput(raw)
      url == parsed.url
      needsResolve == hostNeedsResolve(url)
      t0 == guessName(url, parsed.provider)
      t1 == IF parsed.pdId # "" /\ pdMeta.name # "" THEN pdMeta.name ELSE t0
      d1 == IF parsed.pdId # "" THEN PdApiUrl(parsed.pdId) ELSE parsed.directURL
      res == needsResolve /\ rv.ok
      directURL == IF res THEN rv.url ELSE d1
      t2 == IF res /\ rv.filename # "" THEN rv.filename ELSE t1
      w2 == IF res /\ IncludesEncrypted(rv.note) THEN MegaWarning ELSE ""
      playURL == PlayUrl(needsResolve, parsed.pdId, directURL)
      codecInfo == detectCodecSupport(directURL, pdMeta.type, caps)
      warning == Warning(w2, codecInfo.warning)
      t3 == IF res /\ rv.filename # "" THEN rv.filename ELSE t2
      title == IF pdMeta.name # "" THEN pdMeta.name ELSE t3
  IN [kind |-> "url", provider |-> parsed.provider, url |-> raw,
      directURL |-> directURL, playURL |-> playURL, id |-> directURL, title |-> title,
      needsResolve |-> needsResolve, resolved |-> res,
      codecInfo |-> codecInfo, pdId |-> parsed.pdId, warning |-> warning]

\* ----------------------------------------------------- fallback chain
Cand(u, l) == [url |-> u, label |-> l]

HasUrl(urls, u) == \E i \in 1..Len(urls) : urls[i].url = u

\* the direct URL is put in front of the play URL
PushDirectFirst(s, info) ==
  IF info.directURL # NoUrl /\ info.directURL # info.playURL
  THEN <<Cand(info.directURL, "direct")>> \o s ELSE s

\* the direct entry is pushed when it differs from the play URL
PushDirect(s, info) ==
  IF info.directURL # NoUrl /\ info.directURL # info.playURL
  THEN Append(s, Cand(info.directURL, "direct")) ELSE s

\* mutant: the entry is pushed without looking at the list
PushAlways(s, u, l) == Append(s, Cand(u, l))

\* an entry is pushed unless the list already holds its URL
PushIfNew(s, u, l) == IF ~HasUrl(s, u) THEN Append(s, Cand(u, l)) ELSE s

\* tryLoadWithFallback, lines 309-332: the candidate list
BuildChain(info) ==
  LET s1 == IF info.playURL # NoUrl THEN <<Cand(info.playURL, "proxy")>> ELSE <<>>
      s2 == PushDirect(s1, info)
      s3 == PushIfNew(s2, buildProxy(info.directURL), "proxy-fallback")
      s4 == IF info.url # info.directURL
            THEN PushIfNew(s3, buildProxy(info.url), "proxy-original") ELSE s3
  IN s4

\* one line of the diagnostic message
Line(k, l, c) == [kind |-> k, label |-> l, code |-> c]

\* mutant: the failure line does not name the candidate
ErrDetailUnnamed(label, code) == Line("fail", "", code)

\* errDetail = `${label}: error code=${errCode} msg="${errMsg}"`
ErrDetail(label, code) == Line("fail", label, code)

\* tryLoadWithFallback, lines 359-368: the message as its sequence of lines
ErrorMsg(info, errors) ==
  <<Line("header", "", 0)>>
  \o (IF ~info.codecInfo.canPlay
      THEN <<Line("format", "", 0), Line("codec-warning", info.codecInfo.warning, 0)>>
      ELSE <<>>)
  \o <<Line("detail", "", 0)>> \o errors \o <<Line("download", "", 0)>>

NoOutcome == [settled |-> FALSE, success |-> FALSE, usedUrl |-> NoUrl, tryIndex |-> -1,
              label |-> "", error |-> <<>>]

NoNotice == [title |-> "", msg |-> <<>>]

\* the browser: Hls.js loaded, native HLS playback, and canPlayType for HEVC,
\* Matroska and WebM
Envs == {[hlsjs |-> TRUE, nativeHls |-> FALSE, hevc |-> FALSE, mkv |-> TRUE, webm |-> TRUE],
         [hlsjs |-> FALSE, nativeHls |-> TRUE, hevc |-> TRUE, mkv |-> FALSE, webm |-> FALSE],
         [hlsjs |-> FALSE, nativeHls |-> FALSE, hevc |-> FALSE, mkv |-> FALSE, webm |-> TRUE]}

\* the texts a user submits
RawInputs ==
  {NoUrl,
   Str(TRUE, 0, "", "", ""),
   CdnV,
   Str(TRUE, 0, "https://", "cdn.example", "/v.mp4"),
   Str(FALSE, 0, "", "cdn.example", "/v.avi"),
   Str(FALSE, 0, "https://", "gofile.io", "/d/x"),
   Str(FALSE, 0, "https://", "pixeldrain.com", "/u/ab"),
   Str(FALSE, 0, "https://", "cdn.example", "/s.m3u8"),
   Str(FALSE, 0, "https://", "gofile.io", "/s.m3u8"),
   Str(FALSE, 0, "magnet:", "", "/d/x")}

\* the object URL Hls.js attaches to the media element
HlsBlob == Str(FALSE, 0, "blob:", "", "/hls")

Cycles == 1..MaxCycles

VARIABLES
  cyc,        \* the load cycles: one record per loadMedia call
  started,    \* the number of loadMedia calls made
  mq,         \* microtask queue: the cycles whose awaited promise has settled
  cur,        \* player.js: current media
  rangeOK,    \* player.js: range support confirmed
  hls,        \* player.js: the cycle whose Hls.js instance is alive, 0 for null
  autoSave,   \* player.js: autoSaveTmr is set
  history,    \* History store: id and saved position of the entries, newest first
  pdCache,    \* PixelDrainCache entry of the one id of the model
  sinkSrc,    \* the media element's src
  sinkErr,    \* the media element's error code, 0 for null
  listeners,  \* the cycles whose attempt has its listeners on the element, in order
  env,        \* the browser
  world,      \* the texts the user submits and the bodies the resolve endpoint sends
  vpos,       \* the media element's currentTime, in seconds
  vdur,       \* the media element's duration, -1 when it is not finite
  vbuf,       \* the media element's buffered ranges: the seconds they cover
  seekTimers, \* safeSeek's pending 900 ms checks, oldest first
  toasts,     \* the seek notices emitted
  lastSeek,   \* the path the latest call of safeSeek took (a record for the proofs)
  now,        \* Date.now(), in days
  call,       \* a stand-alone call of a pure function: arguments and result
  paused,            \* the media element's paused flag
  seekResumeWanted,  \* player.js: play again when the seek is over
  internalSeekPause, \* player.js: the next pause event is the seek's own
  seeking,           \* the media element's seeking flag
  events,            \* the element's events queued for dispatch, oldest first
  resumeCbs,         \* the resume callbacks scheduled by the seeked handler
  wasPlaying,        \* the media was playing when the pending seeks began (a record for the proofs)
  seeksBegun,        \* the number of seeks begun on the element
  resetAt,           \* the number of loads made when resetPlayer last ran, -1 before (a record for the proofs)
  abA,               \* player.js: point A of the loop, -1 for null
  abB,               \* player.js: point B of the loop, -1 for null
  abOn,              \* player.js: the loop is active
  queue,             \* Queue store: the ids of the queued items, in order
  lastOp             \* the latest stand-alone store operation and what it returned

vars == <<cyc, started, mq, cur, rangeOK, hls, autoSave, history, pdCache,
          sinkSrc, sinkErr, listeners, env, world,
          vpos, vdur, vbuf, seekTimers, toasts, lastSeek, now, call,
          paused, seekResumeWanted, internalSeekPause, seeking, events, resumeCbs,
          wasPlaying, seeksBegun, resetAt, abA, abB, abOn, queue, lastOp>>

player == <<cur, rangeOK, hls, autoSave, history>>
sink == <<sinkSrc, sinkErr, listeners>>
seeker == <<vpos, vdur, vbuf, seekTimers, toasts, lastSeek>>
\* what the load path neither reads nor writes, and the clock it only reads
playback == <<paused, seekResumeWanted, internalSeekPause, seeking, events, resumeCbs,
              wasPlaying, seeksBegun>>
\* the state outside loading, seeking and the pure functions
ab == <<abA, abB, abOn>>
stores == <<queue, lastOp>>
aside == <<playback, resetAt, stores>>
rest == <<seeker, now, call, aside, ab>>

\* null, for a point of the loop
NoPoint == -1
\* abA = abB = null; abOn = false (line 37)
NoAB ==
  /\ abA = NoPoint
  /\ abB = NoPoint
  /\ abOn = FALSE
\* no stand-alone store operation
NoOp == [op |-> "", id |-> NoUrl, ret |-> "", upserted |-> NoUrl]
NoStores ==
  /\ queue = <<>>
  /\ lastOp = NoOp

\* the element and the seek flags of player.js before any media plays (lines 43-44)
NoPlayback ==
  /\ paused = TRUE
  /\ seekResumeWanted = FALSE
  /\ internalSeekPause = FALSE
  /\ seeking = FALSE
  /\ events = <<>>
  /\ resumeCbs = 0
  /\ wasPlaying = FALSE
  /\ seeksBegun = 0
NoAside == NoPlayback /\ resetAt = -1 /\ NoAB /\ NoStores

NoCur == [kind |-> "none", provider |-> "", url |-> NoUrl, directURL |-> NoUrl,
          playURL |-> NoUrl, id |-> NoUrl, title |-> "", owner |-> 0]

CycleInit ==
  [pc |-> "idle", raw |-> NoUrl, pdMeta |-> NoMeta, rv |-> NoResolve, info |-> NoInfo,
   urls |-> <<>>, idx |-> 0, errors |-> <<>>, kind |-> "", ok |-> FALSE,
   outcome |-> NoOutcome, rs |-> "", notice |-> NoNotice, assigned |-> <<>>,
   hlsSrc |-> NoUrl, net |-> 0, timer |-> FALSE, req |-> FALSE, late |-> FALSE, bg |-> FALSE,
   seen |-> "", body |-> NoBody, warned |-> "", fromHistory |-> FALSE, resume |-> 0,
   loop |-> FALSE]

\* no stand-alone call
NoCall == [fn |-> "", input |-> NoUrl, mime |-> "", caps |-> [hevc |-> FALSE, mkv |-> FALSE, webm |-> FALSE],
           parsed |-> NoParse, provider |-> "", needs |-> FALSE, codec |-> NoCodec]

\* the player after init(), before any load
Fresh ==
  /\ cur = NoCur
  /\ rangeOK = FALSE
  /\ hls = 0
  /\ autoSave = FALSE
  /\ history = <<>>
  /\ pdCache = NoMeta
  /\ sinkSrc = NoUrl
  /\ sinkErr = 0
  /\ listeners = <<>>

\* no media is loaded, no seek is pending
NoSeek ==
  /\ vpos = 0
  /\ vdur = -1
  /\ vbuf = {}
  /\ seekTimers = <<>>
  /\ toasts = 0
  /\ lastSeek = "none"

\* one load, of any text, in any browser
Init ==
  /\ NoAside
  /\ Fresh
  /\ NoSeek
  /\ now = 1
  /\ call = NoCall
  /\ cyc = [c \in Cycles |-> CycleInit]
  /\ started = MaxCycles - 1
  /\ mq = <<>>
  /\ env \in Envs
  /\ world = [inputs |-> RawInputs, bodies |-> Bodies, fromHistory |-> FALSE]

GoFileX == Str(FALSE, 0, "https://", "gofile.io", "/d/x")
CdnHls == Str(FALSE, 0, "https://", "cdn.example", "/s.m3u8")
PdU == Str(FALSE, 0, "https://", "pixeldrain.com", "/u/ab")

\* an entry of the history or of the queue
Item(id, pos) == [id |-> id, pos |-> pos]

\* the history of an earlier session: positions saved by the auto save
StoredHistory == <<Item(CdnV, 7), Item(CdnHls, 7), Item(CdnR, 3)>>

\* one load, asked from the history panel or the queue (fromHistory) or
\* typed, with the history of an earlier session in the store
InitResume ==
  /\ NoAside
  /\ cur = NoCur
  /\ rangeOK = FALSE
  /\ hls = 0
  /\ autoSave = FALSE
  /\ history = StoredHistory
  /\ pdCache = NoMeta
  /\ sinkSrc = NoUrl
  /\ sinkErr = 0
  /\ listeners = <<>>
  /\ NoSeek
  /\ now = 1
  /\ call = NoCall
  /\ cyc = [c \in Cycles |-> CycleInit]
  /\ started = MaxCycles - 1
  /\ mq = <<>>
  /\ env \in Envs
  /\ \E fh \in BOOLEAN : world = [inputs |-> RawInputs, bodies |-> Bodies, fromHistory |-> fh]

\* several loads, one after or during the other, in a browser with Hls.js
InitRace ==
  /\ NoAside
  /\ Fresh
  /\ NoSeek
  /\ now = 1
  /\ call = NoCall
  /\ cyc = [c \in Cycles |-> CycleInit]
  /\ started = 0
  /\ mq = <<>>
  /\ env = [hlsjs |-> TRUE, nativeHls |-> FALSE, hevc |-> FALSE, mkv |-> TRUE, webm |-> TRUE]
  /\ world = [inputs |-> {NoUrl, CdnV, GoFileX, CdnHls},
              bodies |-> {NoBody, [json |-> TRUE, resolved |-> TRUE, url |-> CdnR,
                                   note |-> "", filename |-> ""]},
              fromHistory |-> FALSE]

\* a PixelDrain link is loaded, again and again; the store may hold an
\* entry of an earlier session
InitCache ==
  /\ NoAside
  /\ cur = NoCur
  /\ rangeOK = FALSE
  /\ hls = 0
  /\ autoSave = FALSE
  /\ history = <<>>
  /\ sinkSrc = NoUrl
  /\ sinkErr = 0
  /\ listeners = <<>>
  /\ NoSeek
  /\ now = 1
  /\ call = NoCall
  /\ pdCache \in {NoMeta} \cup {PixelDrainCacheSet(m, 1) : m \in Metas}
  /\ cyc = [c \in Cycles |-> CycleInit]
  /\ started = 0
  /\ mq = <<>>
  /\ env = [hlsjs |-> TRUE, nativeHls |-> FALSE, hevc |-> FALSE, mkv |-> TRUE, webm |-> TRUE]
  /\ world = [inputs |-> {PdU, PdApiUrl("ab")}, bodies |-> {NoBody}, fromHistory |-> FALSE]

\* the descriptors handed to tryLoadWithFallback directly
ChainUrls == {CdnV, CdnR, buildProxy(CdnV), buildProxy(CdnR), buildProxy(buildProxy(CdnV))}

AviCodec == [container |-> "AVI", codec |-> "unknown", canPlay |-> FALSE,
             warning |-> AviWarning, needsSpecial |-> TRUE]

Descriptors ==
  {[NoInfo EXCEPT !.kind = "url", !.url = u, !.directURL = d, !.playURL = p,
                  !.id = d, !.codecInfo = ci] :
     u \in ChainUrls, d \in ChainUrls \cup {NoUrl}, p \in ChainUrls \cup {NoUrl},
     ci \in {NoCodec, AviCodec}}

\* tryLoadWithFallback called with any descriptor
InitChain ==
  /\ NoAside
  /\ Fresh
  /\ NoSeek
  /\ now = 1
  /\ call = NoCall
  /\ \E d \in Descriptors :
        cyc = [c \in Cycles |-> IF c = 1 THEN [CycleInit EXCEPT !.pc = "chain_call", !.info = d]
                                ELSE CycleInit]
  /\ started = MaxCycles
  /\ mq = <<1>>
  /\ env = [hlsjs |-> TRUE, nativeHls |-> FALSE, hevc |-> FALSE, mkv |-> TRUE, webm |-> TRUE]
  /\ world = [inputs |-> {}, bodies |-> {}, fromHistory |-> FALSE]

\* a task of the event loop starts only when no microtask is pending
Idle == mq = <<>>

\* the continuation of cycle c is the next microtask
Next1(c) == mq # <<>> /\ Head(mq) = c

\* the entries of a list other than the one of an id
Remove(list, id) == SelectSeq(list, LAMBDA y : y.id # id)

\* mutant: the list grows without limit
TruncateNever(l) == l

\* list.length = MAX_HISTORY
Truncate(l) == IF Len(l) > MAX_HISTORY THEN SubSeq(l, 1, MAX_HISTORY) ELSE l

\* History.upsert
upsert(list, item) == Truncate(<<item>> \o Remove(list, item.id))

\* History.getPos
getPos(list, id) ==
  IF \E i \in 1..Len(list) : list[i].id = id
  THEN list[CHOOSE i \in 1..Len(list) :
              list[i].id = id /\ \A j \in 1..(i - 1) : list[j].id # id].pos
  ELSE 0

\* resumeIfNeeded (player.js 384-395) when fromHistory is set: the position
\* the 400 ms timer is armed with, 0 when no timer is armed
resumeIfNeeded(list, id, fromHistory) ==
  IF fromHistory /\ getPos(list, id) > RESUME_MIN THEN getPos(list, id) ELSE 0

\* fetchWithTimeout called by callResolve: timer armed, request sent
CallResolve(r) ==
  [r EXCEPT !.pc = "resolve_fetch", !.timer = TRUE, !.req = TRUE, !.net = @ + 1]

\* ------------------------------------------------------------- loadMedia
\* loadMedia up to its first await (lines 452-469), with the part of
\* resolveMedia that runs before resolveMedia's first await
LoadMedia(c, raw) ==
  /\ Idle
  /\ c = started + 1
  /\ cyc[c].pc = "idle"
  /\ raw \in world.inputs
  /\ started' = c
  /\ UNCHANGED <<cur, history, pdCache, listeners, env, world, seeker, now, call, aside>>
  /\ LET parsed == parseInput(raw)
         r == [cyc[c] EXCEPT !.raw = raw, !.fromHistory = world.fromHistory, !.loop = abOn]
     IN
     IF parsed.kind = "none"
     THEN \* line 454: returns, nothing is emitted
          /\ cyc' = [cyc EXCEPT ![c] = [r EXCEPT !.pc = "returned"]]
          /\ UNCHANGED <<mq, rangeOK, hls, autoSave, sinkSrc, sinkErr, ab>>
     ELSE \* stopMedia (both branches): hls destroyed, auto save stopped, src removed;
          \* the loop points are cleared (lines 461 and 660)
          /\ abA' = NoPoint
          /\ abB' = NoPoint
          /\ abOn' = FALSE
          /\ hls' = 0
          /\ autoSave' = FALSE
          /\ sinkSrc' = NoUrl
          /\ sinkErr' = 0
          /\ IF parsed.kind = "torrent"
             THEN \* loadTorrent, lines 651-663; the swarm is not modelled
                  /\ rangeOK' = TRUE
                  /\ cyc' = [cyc EXCEPT ![c] = [r EXCEPT !.pc = "torrent"]]
                  /\ mq' = mq
             ELSE /\ rangeOK' = rangeOK
                  /\ IF parsed.pdId # ""
                     THEN IF PixelDrainCacheGet(pdCache, now).hit
                          THEN \* PixelDrainCache.fetch returns the cached entry
                               /\ cyc' = [cyc EXCEPT ![c] =
                                            [r EXCEPT !.pc = "after_meta",
                                                      !.pdMeta = PixelDrainCacheGet(pdCache, now)]]
                               /\ mq' = Append(mq, c)
                          ELSE /\ cyc' = [cyc EXCEPT ![c] =
                                            [r EXCEPT !.pc = "meta_wait", !.net = @ + 1]]
                               /\ mq' = mq
                     ELSE IF hostNeedsResolve(parsed.url)
                          THEN /\ cyc' = [cyc EXCEPT ![c] = CallResolve(r)]
                               /\ mq' = mq
                          ELSE /\ cyc' = [cyc EXCEPT ![c] = [r EXCEPT !.pc = "resolved"]]
                               /\ mq' = Append(mq, c)

\* ------------------------------------------------- metadata (Promise.race)
\* the metadata request settles before the 5 s timer
MetaResponse(c, m) ==
  /\ Idle
  /\ cyc[c].pc = "meta_wait"
  /\ m \in Metas \cup {NoMeta}
  /\ pdCache' = IF m.hit THEN PixelDrainCacheSet(m, now) ELSE pdCache
  /\ cyc' = [cyc EXCEPT ![c] = [@ EXCEPT !.pc = "after_meta", !.pdMeta = m]]
  /\ mq' = Append(mq, c)
  /\ UNCHANGED <<started, player, sink, env, world, rest>>

\* the 5 s timer wins: no metadata, the request goes on behind
MetaTimeout(c) ==
  /\ Idle
  /\ cyc[c].pc = "meta_wait"
  /\ cyc' = [cyc EXCEPT ![c] = [@ EXCEPT !.pc = "after_meta", !.pdMeta = NoMeta, !.bg = TRUE]]
  /\ mq' = Append(mq, c)
  /\ UNCHANGED <<started, player, pdCache, sink, env, world, rest>>

\* the request that lost the race settles
MetaLate(c, m) ==
  /\ Idle
  /\ cyc[c].bg
  /\ m \in Metas \cup {NoMeta}
  /\ pdCache' = IF m.hit THEN PixelDrainCacheSet(m, now) ELSE pdCache
  /\ cyc' = [cyc EXCEPT ![c] = [@ EXCEPT !.bg = FALSE]]
  /\ UNCHANGED <<started, mq, player, sink, env, world, rest>>

\* resolveMedia after step 1 (lines 226-230)
ContinueAfterMeta(c) ==
  /\ Next1(c)
  /\ cyc[c].pc = "after_meta"
  /\ IF hostNeedsResolve(parseInput(cyc[c].raw).url)
     THEN /\ cyc' = [cyc EXCEPT ![c] = CallResolve(@)]
          /\ mq' = Tail(mq)
     ELSE /\ cyc' = [cyc EXCEPT ![c] = [@ EXCEPT !.pc = "resolved"]]
          /\ mq' = Append(Tail(mq), c)
  /\ UNCHANGED <<started, player, pdCache, sink, env, world, rest>>

\* --------------------------------------- callResolve and fetchWithTimeout
\* callResolve returns v to resolveMedia; seen records what the call met
Returned(r, v, seen) ==
  [r EXCEPT !.pc = "resolved", !.rv = v, !.req = FALSE, !.timer = FALSE, !.seen = seen]

\* the status line and headers arrive: fetch resolves, and fetchWithTimeout's
\* finally clears the timer (line 89)
ResolveHeaders(c, ok) ==
  /\ Idle
  /\ cyc[c].pc = "resolve_fetch"
  /\ IF ok
     THEN \* await resp.text(): the body is still being read
          /\ cyc' = [cyc EXCEPT ![c] = [@ EXCEPT !.pc = "resolve_body", !.timer = FALSE]]
          /\ mq' = mq
     ELSE \* !resp.ok: return null
          /\ cyc' = [cyc EXCEPT ![c] = Returned(@, NoResolve, "status")]
          /\ mq' = Append(mq, c)
  /\ UNCHANGED <<started, player, pdCache, sink, env, world, rest>>

\* fetch rejects (network failure): caught, return null
ResolveNetError(c) ==
  /\ Idle
  /\ cyc[c].pc = "resolve_fetch"
  /\ cyc' = [cyc EXCEPT ![c] = Returned(@, NoResolve, "network")]
  /\ mq' = Append(mq, c)
  /\ UNCHANGED <<started, player, pdCache, sink, env, world, rest>>

\* 15 s have passed since the call: the timer, if still armed, aborts the request
ResolveDeadline(c) ==
  /\ Idle
  /\ cyc[c].pc \in {"resolve_fetch", "resolve_body"}
  /\ ~cyc[c].late
  /\ IF cyc[c].timer
     THEN /\ cyc' = [cyc EXCEPT ![c] = [Returned(@, NoResolve, "abort") EXCEPT !.late = TRUE]]
          /\ mq' = Append(mq, c)
     ELSE /\ cyc' = [cyc EXCEPT ![c] = [@ EXCEPT !.late = TRUE]]
          /\ mq' = mq
  /\ UNCHANGED <<started, player, pdCache, sink, env, world, rest>>

\* resp.text() resolves: parse, normalize, return
ResolveBody(c, body) ==
  /\ Idle
  /\ cyc[c].pc = "resolve_body"
  /\ body \in world.bodies
  /\ cyc' = [cyc EXCEPT ![c] = [Returned(@, ResolveResult(body), "body") EXCEPT !.body = body]]
  /\ mq' = Append(mq, c)
  /\ UNCHANGED <<started, player, pdCache, sink, env, world, rest>>

\* resp.text() rejects: caught, return null
ResolveBodyError(c) ==
  /\ Idle
  /\ cyc[c].pc = "resolve_body"
  /\ cyc' = [cyc EXCEPT ![c] = Returned(@, NoResolve, "bodyerr")]
  /\ mq' = Append(mq, c)
  /\ UNCHANGED <<started, player, pdCache, sink, env, world, rest>>

\* ------------------------------------------------- one attempt on the sink
\* how the sink answers `el.src = url; el.load()`: it takes them, or one throws
SinkThrows == {"no", "src", "load"}

\* what the promise of _tryLoadSingle / tryLoadSrc does when the sink throws:
\* the catch block calls no(), whose cleanup() reads tmr before its const
\* declaration ran; the ReferenceError leaves the executor and rejects the promise
PcAfterStart(thr) == IF thr = "no" THEN "attempt" ELSE "rejected"

\* _tryLoadSingle (lines 379-413) and tryLoadSrc (player.js 429-446) up to
\* the return of the executor; r is the cycle's record so far
StartAttempt(c, r, url, kind) ==
  \E thr \in SinkThrows :
    /\ sinkSrc' = IF thr = "src" THEN sinkSrc ELSE url
    /\ sinkErr' = IF thr = "src" THEN sinkErr ELSE 0
    /\ listeners' = IF thr = "no" THEN Append(listeners, c) ELSE listeners
    /\ cyc' = [cyc EXCEPT ![c] =
                 [r EXCEPT !.pc = PcAfterStart(thr), !.kind = kind,
                           !.assigned = IF thr = "src" THEN @ ELSE Append(@, url)]]

\* the cycles whose attempt a ready signal settles: tryLoadSrc does not
\* listen to loadedmetadata
Hears(c, sig) == sig \in {"canplay", "loadeddata"} \/ cyc[c].kind = "chain"

\* the listeners and the timer of a settled attempt stay
cleanupNothing(ls, hit) == ls

\* cleanup() of the attempts in hit: their listeners leave the element,
\* their timers are cleared
cleanup(ls, hit) == SelectSeq(ls, LAMBDA c : \A i \in 1..Len(hit) : hit[i] # c)

Settle(hit, ok) ==
  [c \in Cycles |-> IF \E i \in 1..Len(hit) : hit[i] = c
                    THEN [cyc[c] EXCEPT !.pc = "attempt_done", !.ok = ok]
                    ELSE cyc[c]]

\* updateMeta (player.js 160-166), the element's loadedmetadata handler
updateMeta(seekable) ==
  rangeOK \/ seekable \/ cur.kind \in {"local", "torrent"} \/ cur.provider = "HLS"

\* a ready signal of the element: ok() of every attempt that hears it
SinkReady(sig, seekable) ==
  /\ Idle
  /\ sinkSrc # NoUrl
  /\ sig \in {"loadedmetadata", "canplay"}
  /\ seekable \in (IF sig = "loadedmetadata" THEN BOOLEAN ELSE {FALSE})
  /\ LET hit == SelectSeq(listeners, LAMBDA c : Hears(c, sig))
     IN /\ cyc' = Settle(hit, TRUE)
        /\ listeners' = cleanup(listeners, hit)
        /\ mq' = mq \o hit
  /\ rangeOK' = IF sig = "loadedmetadata" THEN updateMeta(seekable) ELSE rangeOK
  /\ UNCHANGED <<started, cur, hls, autoSave, history, pdCache, sinkSrc, sinkErr, env, world, rest>>

\* MediaError.code of a failed load: MEDIA_ERR_SRC_NOT_SUPPORTED
ErrorCodes == {4}

\* the element's error event: no() of every attempt
SinkError(code) ==
  /\ Idle
  /\ sinkSrc # NoUrl
  /\ listeners # <<>>
  /\ code \in ErrorCodes
  /\ sinkErr' = code
  /\ cyc' = Settle(listeners, FALSE)
  /\ listeners' = cleanup(listeners, listeners)
  /\ mq' = mq \o listeners
  /\ UNCHANGED <<started, player, pdCache, sinkSrc, env, world, rest>>

\* the attempt's own timer (20 s, 18 s in tryLoadSrc)
AttemptTimeout(c) ==
  /\ Idle
  /\ \E i \in 1..Len(listeners) : listeners[i] = c
  /\ cyc' = Settle(<<c>>, FALSE)
  /\ listeners' = cleanup(listeners, <<c>>)
  /\ mq' = Append(mq, c)
  /\ UNCHANGED <<started, player, pdCache, sinkSrc, sinkErr, env, world, rest>>

\* --------------------------------------------------- tryLoadWithFallback
\* lines 308-343: build the list, start attempt 0
CallChain(c) ==
  /\ Next1(c)
  /\ cyc[c].pc = "chain_call"
  /\ LET urls == BuildChain(cyc[c].info)
         r == [cyc[c] EXCEPT !.urls = urls, !.idx = 0, !.errors = <<>>]
     IN StartAttempt(c, r, urls[1].url, "chain")
  /\ mq' = Tail(mq)
  /\ UNCHANGED <<started, player, pdCache, env, world, rest>>

Success(r) ==
  [settled |-> TRUE, success |-> TRUE, usedUrl |-> r.urls[r.idx + 1].url,
   tryIndex |-> r.idx, label |-> r.urls[r.idx + 1].label, error |-> <<>>]

Failure(r, errors) ==
  [settled |-> TRUE, success |-> FALSE, usedUrl |-> r.urls[1].url,
   tryIndex |-> -1, label |-> "", error |-> ErrorMsg(r.info, errors)]

\* mutant: the loop skips a candidate
SkipIndex(i) == i + 2

\* the next index of the for loop
NextIndex(i) == i + 1

\* lines 343-376 after an attempt of the chain has settled
ChainStep(c) ==
  LET r == cyc[c]
      errors == Append(r.errors, ErrDetail(r.urls[r.idx + 1].label, sinkErr))
  IN
  IF r.ok
  THEN /\ cyc' = [cyc EXCEPT ![c] = [r EXCEPT !.pc = "chain_ret", !.outcome = Success(r)]]
       /\ mq' = mq
       /\ UNCHANGED <<player, sink>>
  ELSE IF NextIndex(r.idx) < Len(r.urls)
  THEN /\ StartAttempt(c, [r EXCEPT !.errors = errors, !.idx = NextIndex(r.idx)],
                       r.urls[NextIndex(r.idx) + 1].url, "chain")
       /\ mq' = Tail(mq)
       /\ UNCHANGED player
  ELSE /\ cyc' = [cyc EXCEPT ![c] = [r EXCEPT !.pc = "chain_ret", !.errors = errors,
                                              !.outcome = Failure(r, errors)]]
       /\ mq' = mq
       /\ UNCHANGED <<player, sink>>

\* _saveToHistory (player.js 579-589): the entry is keyed by cur.id
SavedHistory == upsert(history, Item(cur.id, 0))

\* loadMedia lines 540-552 after tryLoadSrc has settled (native HLS)
NativeHlsStep(c) ==
  /\ mq' = Tail(mq)
  /\ UNCHANGED <<cur, hls, sink>>
  /\ IF cyc[c].ok
     THEN /\ rangeOK' = TRUE
          /\ history' = SavedHistory
          /\ autoSave' = TRUE
          /\ cyc' = [cyc EXCEPT ![c] =
                       [@ EXCEPT !.pc = "done_ok",
                                 !.resume = resumeIfNeeded(SavedHistory, cur.id, cyc[c].fromHistory)]]
     ELSE /\ UNCHANGED <<rangeOK, history, autoSave>>
          /\ cyc' = [cyc EXCEPT ![c] =
                       [@ EXCEPT !.pc = "done_err", !.notice = [title |-> "HLS Error", msg |-> <<>>]]]

\* loadLocalFile lines 629-643 after tryLoadSrc has settled
LocalStep(c) ==
  /\ mq' = Tail(mq)
  /\ UNCHANGED <<cur, rangeOK, hls, sink>>
  /\ IF cyc[c].ok
     THEN /\ history' = SavedHistory
          /\ autoSave' = TRUE
          /\ cyc' = [cyc EXCEPT ![c] = [@ EXCEPT !.pc = "done_ok"]]
     ELSE /\ UNCHANGED <<history, autoSave>>
          /\ cyc' = [cyc EXCEPT ![c] =
                       [@ EXCEPT !.pc = "done_err",
                                 !.notice = [title |-> "Unsupported format", msg |-> <<>>]]]

ContinueAttemptDone(c) ==
  /\ Next1(c)
  /\ cyc[c].pc = "attempt_done"
  /\ IF cyc[c].kind = "chain" THEN ChainStep(c)
     ELSE IF cyc[c].kind = "local" THEN LocalStep(c)
     ELSE NativeHlsStep(c)
  /\ UNCHANGED <<started, pdCache, env, world, rest>>

\* ------------------------------------------- loadMedia after resolveMedia
\* mutant: the warning is shown but the load goes on
NeverBlocked(info) == FALSE

\* any warning ends the load
BlockedByWarning(info) == info.warning # ""

\* loadMedia lines 476-480: the hard block
HardBlocked(info) == info.warning # "" /\ IncludesEncrypted(info.warning)

\* loadMedia lines 483-495
CurOf(c, info) ==
  [kind |-> "url", provider |-> info.provider, url |-> info.url,
   directURL |-> info.directURL, playURL |-> info.playURL, id |-> info.id,
   title |-> info.title, owner |-> c]

\* the cycle holds the descriptor; line 505: emit("formatWarning",
\* info.warning), past the hard block
WithInfo(r, info) ==
  [r EXCEPT !.info = info, !.warned = IF HardBlocked(info) THEN "" ELSE info.warning]

\* resolveMedia returns (lines 243-279), loadMedia goes on to line 556
ContinueResolved(c) ==
  /\ Next1(c)
  /\ cyc[c].pc = "resolved"
  /\ UNCHANGED <<started, pdCache, env, world, rest, rangeOK, autoSave, history>>
  /\ LET info == resolveMedia(cyc[c].raw, cyc[c].pdMeta, cyc[c].rv, env)
         r == WithInfo(cyc[c], info)
     IN
     IF HardBlocked(info)
     THEN /\ cyc' = [cyc EXCEPT ![c] =
                       [r EXCEPT !.pc = "done_err",
                                 !.notice = [title |-> "Cannot play MEGA", msg |-> <<>>]]]
          /\ mq' = Tail(mq)
          /\ UNCHANGED <<cur, hls, sink>>
     ELSE /\ cur' = CurOf(c, info)
          /\ IF ~isHLSUrl(info.directURL)
             THEN \* tryLoadWithFallback(v, info) is called in the same task
                  /\ cyc' = [cyc EXCEPT ![c] = [r EXCEPT !.pc = "chain_call"]]
                  /\ mq' = mq
                  /\ UNCHANGED <<hls, sink>>
             ELSE IF env.hlsjs
             THEN \* Hls.js: loadSource(playURL), attachMedia(v)
                  /\ hls' = c
                  /\ sinkSrc' = HlsBlob
                  /\ sinkErr' = 0
                  /\ listeners' = listeners
                  /\ cyc' = [cyc EXCEPT ![c] =
                               [r EXCEPT !.pc = "hls_wait", !.hlsSrc = info.playURL, !.net = @ + 1]]
                  /\ mq' = Tail(mq)
             ELSE IF env.nativeHls
             THEN /\ StartAttempt(c, r, info.playURL, "src")
                  /\ mq' = Tail(mq)
                  /\ hls' = hls
             ELSE /\ cyc' = [cyc EXCEPT ![c] =
                               [r EXCEPT !.pc = "done_err",
                                         !.notice = [title |-> "HLS Error", msg |-> <<>>]]]
                  /\ mq' = Tail(mq)
                  /\ UNCHANGED <<hls, sink>>

\* loadMedia lines 571-576: the message shown when the chain failed
CannotPlayMsg(info, outcome) ==
  outcome.error
  \o (IF info.codecInfo.warning # ""
      THEN <<Line("codec-warning", info.codecInfo.warning, 0)>> ELSE <<>>)
  \o <<Line("download", "", 0)>>

\* loadMedia lines 556-576: tryLoadWithFallback has returned
AfterChain(c) ==
  /\ Next1(c)
  /\ cyc[c].pc = "chain_ret"
  /\ mq' = Tail(mq)
  /\ IF cyc[c].outcome.success
     THEN \* detectRangeSupport(result.usedUrl): the probe request is sent
          cyc' = [cyc EXCEPT ![c] = [@ EXCEPT !.pc = "probe", !.net = @ + 1]]
     ELSE cyc' = [cyc EXCEPT ![c] =
                    [@ EXCEPT !.pc = "done_err",
                              !.notice = [title |-> "Cannot play",
                                          msg |-> CannotPlayMsg(cyc[c].info, cyc[c].outcome)]]]
  /\ UNCHANGED <<started, player, pdCache, sink, env, world, rest>>

\* ------------------------------------------------------ detectRangeSupport
\* lines 294-297 on a response
RangeAnswer(status206, acceptBytes) ==
  IF status206 THEN "true" ELSE IF acceptBytes THEN "true" ELSE "false"

ProbeResponse(c, status206, acceptBytes) ==
  /\ Idle
  /\ cyc[c].pc = "probe"
  /\ cyc' = [cyc EXCEPT ![c] = [@ EXCEPT !.pc = "probed", !.rs = RangeAnswer(status206, acceptBytes)]]
  /\ mq' = Append(mq, c)
  /\ UNCHANGED <<started, player, pdCache, sink, env, world, rest>>

\* the request fails or is aborted after 5 s: null
ProbeFail(c) ==
  /\ Idle
  /\ cyc[c].pc = "probe"
  /\ cyc' = [cyc EXCEPT ![c] = [@ EXCEPT !.pc = "probed", !.rs = "null"]]
  /\ mq' = Append(mq, c)
  /\ UNCHANGED <<started, player, pdCache, sink, env, world, rest>>

\* loadMedia lines 562-567
ContinueProbed(c) ==
  /\ Next1(c)
  /\ cyc[c].pc = "probed"
  /\ rangeOK' = (cyc[c].rs = "true")
  /\ history' = SavedHistory
  /\ autoSave' = TRUE
  /\ cyc' = [cyc EXCEPT ![c] =
                       [@ EXCEPT !.pc = "done_ok",
                                 !.resume = resumeIfNeeded(SavedHistory, cur.id, cyc[c].fromHistory)]]
  /\ mq' = Tail(mq)
  /\ UNCHANGED <<started, cur, hls, pdCache, sink, env, world, rest>>

\* ------------------------------------------------------------ Hls.js events
\* MANIFEST_PARSED of the live instance (lines 524-532)
HlsManifestParsed(c) ==
  /\ Idle
  /\ cyc[c].pc = "hls_wait"
  /\ hls = c
  /\ rangeOK' = TRUE
  /\ history' = SavedHistory
  /\ autoSave' = TRUE
  /\ cyc' = [cyc EXCEPT ![c] =
                       [@ EXCEPT !.pc = "done_ok",
                                 !.resume = resumeIfNeeded(SavedHistory, cur.id, cyc[c].fromHistory)]]
  /\ UNCHANGED <<started, mq, cur, hls, pdCache, sink, env, world, rest>>

\* a fatal ERROR of the live instance (lines 533-535)
HlsFatal(c) ==
  /\ Idle
  /\ cyc[c].pc = "hls_wait"
  /\ hls = c
  /\ cyc' = [cyc EXCEPT ![c] =
               [@ EXCEPT !.pc = "done_err", !.notice = [title |-> "HLS Error", msg |-> <<>>]]]
  /\ UNCHANGED <<started, mq, player, pdCache, sink, env, world, rest>>

\* ------------------------------------------------------- stand-alone calls
\* the texts handed to parseInput, detectProvider and detectCodecSupport
PureInputs ==
  {Str(ws, 0, sch, h, p) : ws \in BOOLEAN, sch \in {"", "http://", "https://", "blob:", "magnet:"},
                           h \in Hosts \ {ProxyHost}, p \in Paths}
  \cup {buildProxy(CdnV), buildProxy(CdnHls),
        buildProxy(Str(FALSE, 0, "https://", "cdn.example", "/f.torrent")),
        buildProxy(Str(FALSE, 0, "https://", "cdn.example", "/f.torrent?x=1"))}

\* the answers of canPlayType
Caps == [hevc : BOOLEAN, mkv : BOOLEAN, webm : BOOLEAN]

\* one call, of one function, on any text
InitPure ==
  /\ NoAside
  /\ Fresh
  /\ NoSeek
  /\ now = 1
  /\ cyc = [c \in Cycles |-> CycleInit]
  /\ started = MaxCycles
  /\ mq = <<>>
  /\ env = [hlsjs |-> TRUE, nativeHls |-> FALSE, hevc |-> FALSE, mkv |-> TRUE, webm |-> TRUE]
  /\ world = [inputs |-> {}, bodies |-> {}, fromHistory |-> FALSE]
  /\ call \in {[NoCall EXCEPT !.input = u] : u \in PureInputs}

load == <<cyc, started, mq, player, pdCache, sink, env, world>>

CallParseInput ==
  /\ call.fn = ""
  /\ call' = [call EXCEPT !.fn = "parseInput", !.parsed = parseInput(call.input)]
  /\ UNCHANGED <<load, seeker, now, aside, ab>>

\* detectProvider and hostNeedsResolve on the same text
CallDetectProvider ==
  /\ call.fn = ""
  /\ call' = [call EXCEPT !.fn = "detectProvider", !.provider = detectProvider(call.input),
                          !.needs = hostNeedsResolve(call.input)]
  /\ UNCHANGED <<load, seeker, now, aside, ab>>

\* detectCodecSupport(name or URL, mime type) in a browser with capabilities caps
CallDetectCodecSupport(mime, caps) ==
  /\ call.fn = ""
  /\ call' = [call EXCEPT !.fn = "detectCodecSupport", !.mime = mime, !.caps = caps,
                          !.codec = detectCodecSupport(call.input, mime, caps)]
  /\ UNCHANGED <<load, seeker, now, aside, ab>>

\* ----------------------------------------------------------------- safeSeek
\* media is on the sink and its range probe is in flight
InitSeek ==
  /\ NoAside
  /\ env = [hlsjs |-> TRUE, nativeHls |-> FALSE, hevc |-> FALSE, mkv |-> TRUE, webm |-> TRUE]
  /\ cur = CurOf(1, resolveMedia(CdnV, NoMeta, NoResolve, env))
  /\ rangeOK \in BOOLEAN
  /\ hls = 0
  /\ autoSave = FALSE
  /\ history = <<>>
  /\ pdCache = NoMeta
  /\ sinkSrc = CdnV
  /\ sinkErr = 0
  /\ listeners = <<>>
  /\ cyc = [c \in Cycles |->
              IF c = 1
              THEN [CycleInit EXCEPT !.pc = "probe", !.raw = CdnV,
                                     !.info = resolveMedia(CdnV, NoMeta, NoResolve, env),
                                     !.urls = BuildChain(resolveMedia(CdnV, NoMeta, NoResolve, env)),
                                     !.assigned = <<CdnV>>, !.ok = TRUE,
                                     !.outcome = Success([urls |-> BuildChain(resolveMedia(CdnV, NoMeta, NoResolve, env)), idx |-> 0]),
                                     !.net = 1]
              ELSE CycleInit]
  /\ started = MaxCycles
  /\ mq = <<>>
  /\ world = [inputs |-> {}, bodies |-> {}, fromHistory |-> FALSE]
  /\ vpos = 0
  /\ vdur \in {-1, MaxPos}
  /\ vbuf \in {{}, {0, 1}}
  /\ seekTimers = <<>>
  /\ toasts = 0
  /\ lastSeek = "none"
  /\ now = 1
  /\ call = NoCall

\* nothing is buffered
bufferedNothing(t) == FALSE

\* config.js clamp = Math.max(lo, Math.min(hi, n))
clamp(n, lo, hi) == IF n > hi THEN (IF hi < lo THEN lo ELSE hi) ELSE IF n < lo THEN lo ELSE n

Abs(x) == IF x < 0 THEN -x ELSE x

bufferedContains(t) == t \in vbuf

\* mutant: every landing counts as close
CloseAlways(p, t) == TRUE

\* line 243: Math.abs(v.currentTime - t) <= 2
Close(p, t) == Abs(p - t) <= SEEK_TOLERANCE

\* safeSeek(t), lines 233-248; doSeek sets the position
SafeSeek(t) ==
  /\ Idle
  /\ toasts + Len(seekTimers) < MaxSeeks
  /\ IF vdur < 0
     THEN /\ lastSeek' = "ignored"
          /\ UNCHANGED <<vpos, vdur, vbuf, seekTimers, toasts>>
     ELSE LET tc == clamp(t, 0, vdur) IN
          /\ vpos' = tc
          /\ seekTimers' = IF rangeOK \/ bufferedContains(tc)
                           THEN seekTimers
                           ELSE Append(seekTimers, [t |-> tc, before |-> vpos])
          /\ lastSeek' = IF rangeOK \/ bufferedContains(tc) THEN "cheap" ELSE "checked"
          /\ UNCHANGED <<vdur, vbuf, toasts>>
  /\ UNCHANGED <<cyc, started, mq, player, pdCache, sink, env, world, aside, ab, now, call>>

\* the callback of the oldest 900 ms timer, lines 242-248
SeekCheck ==
  /\ Idle
  /\ seekTimers # <<>>
  /\ LET s == Head(seekTimers) IN
     IF ~Close(vpos, s.t) /\ ~bufferedContains(s.t) /\ ~rangeOK
     THEN /\ vpos' = s.before
          /\ toasts' = toasts + 1
     ELSE UNCHANGED <<vpos, toasts>>
  /\ seekTimers' = Tail(seekTimers)
  /\ UNCHANGED <<cyc, started, mq, player, pdCache, sink, env, world, aside, ab, vdur, vbuf, lastSeek, now, call>>

\* the sink buffers the media around its position
Progress ==
  /\ Idle
  /\ vdur >= 0
  /\ vbuf' = vbuf \cup {vpos, clamp(vpos + 1, 0, vdur)}
  /\ UNCHANGED <<cyc, started, mq, player, pdCache, sink, env, world, aside, ab, vpos, vdur, seekTimers,
                 toasts, lastSeek, now, call>>

\* the sink's position changes: playback goes on, or the server ignores the
\* range request and the stream restarts
SinkMoves(p) ==
  /\ Idle
  /\ vdur >= 0
  /\ p \in 0..vdur
  /\ vpos' = p
  /\ UNCHANGED <<cyc, started, mq, player, pdCache, sink, env, world, aside, ab, vdur, vbuf, seekTimers,
                 toasts, lastSeek, now, call>>

\* ------------------------------------------------------------ the player
\* the metadata cache
NextMeta ==
  \/ \E c \in Cycles, m \in Metas \cup {NoMeta} : MetaResponse(c, m)
  \/ \E c \in Cycles : MetaTimeout(c)
  \/ \E c \in Cycles, m \in Metas \cup {NoMeta} : MetaLate(c, m)
  \/ \E c \in Cycles : ContinueAfterMeta(c)

\* a day passes between two tasks
Tick ==
  /\ Idle
  /\ now < MaxNow
  /\ now' = now + 1
  /\ UNCHANGED <<load, seeker, call, aside, ab>>

\* loads of a PixelDrain link as days pass, up to the end of the metadata
\* step of resolveMedia
NextCache ==
  \/ \E c \in Cycles, raw \in RawInputs : LoadMedia(c, raw)
  \/ NextMeta
  \/ Tick

\* the fallback chain engine against the sink
NextChain ==
  \/ \E c \in Cycles : CallChain(c)
  \/ \E sig \in {"loadedmetadata", "canplay"}, seekable \in BOOLEAN : SinkReady(sig, seekable)
  \/ \E code \in ErrorCodes : SinkError(code)
  \/ \E c \in Cycles : AttemptTimeout(c)
  \/ \E c \in Cycles : ContinueAttemptDone(c)

\* loads, resolution, range probe, Hls.js
NextLoad ==
  \/ \E c \in Cycles, raw \in RawInputs : LoadMedia(c, raw)
  \/ \E c \in Cycles, ok \in BOOLEAN : ResolveHeaders(c, ok)
  \/ \E c \in Cycles : ResolveNetError(c)
  \/ \E c \in Cycles : ResolveDeadline(c)
  \/ \E c \in Cycles, body \in Bodies : ResolveBody(c, body)
  \/ \E c \in Cycles : ResolveBodyError(c)
  \/ \E c \in Cycles : ContinueResolved(c)
  \/ \E c \in Cycles : AfterChain(c)
  \/ \E c \in Cycles, s \in BOOLEAN, a \in BOOLEAN : ProbeResponse(c, s, a)
  \/ \E c \in Cycles : ProbeFail(c)
  \/ \E c \in Cycles : ContinueProbed(c)
  \/ \E c \in Cycles : HlsManifestParsed(c)
  \/ \E c \in Cycles : HlsFatal(c)

Next == NextLoad \/ NextMeta \/ NextChain

\* the texts of InitRace carry no cache id: no metadata request is made
NextRace == NextLoad \/ NextChain

\* seeks while the range probe of the loaded media is pending or done
NextSeek ==
  \/ \E t \in -1..(MaxPos + 1) : SafeSeek(t)
  \/ SeekCheck
  \/ Progress
  \/ \E p \in 0..MaxPos : SinkMoves(p)
  \/ \E c \in Cycles, s \in BOOLEAN, a \in BOOLEAN : ProbeResponse(c, s, a)
  \/ \E c \in Cycles : ProbeFail(c)
  \/ \E c \in Cycles : ContinueProbed(c)

\* one stand-alone call
NextPure ==
  \/ CallParseInput
  \/ CallDetectProvider
  \/ \E mime \in Mimes, caps \in Caps : CallDetectCodecSupport(mime, caps)

\* one load cycle
Spec == Init /\ [][Next]_vars

\* one load of an item of the history
SpecResume == InitResume /\ [][Next]_vars

\* load cycles that overlap
SpecRace == InitRace /\ [][NextRace]_vars

\* one call of tryLoadWithFallback
SpecChain == InitChain /\ [][NextChain]_vars

\* the classifier, the provider table and the codec advisor on any text
SpecPure == InitPure /\ [][NextPure]_vars

\* the metadata cache over the days
SpecCache == InitCache /\ [][NextCache]_vars

\* safeSeek on loaded media
SpecSeek == InitSeek /\ [][NextSeek]_vars

\* timers fire and continuations run; the sink owes no signal
FairChain ==
  /\ WF_vars(\E c \in Cycles : CallChain(c))
  /\ WF_vars(\E c \in Cycles : AttemptTimeout(c))
  /\ WF_vars(\E c \in Cycles : ContinueAttemptDone(c))

LiveChain == SpecChain /\ FairChain

\* ================================================================ claims
UrlsOf(r) == [i \in 1..Len(r.urls) |-> r.urls[i].url]

IsPrefix(a, b) == Len(a) <= Len(b) /\ \A i \in 1..Len(a) : a[i] = b[i]

\* C1: the candidate list built by tryLoadWithFallback holds no URL string
\* twice, whatever playURL, directURL and original input the descriptor has.
C1_NoDuplicateCandidates ==
  \A c \in Cycles :
    \A i, j \in 1..Len(cyc[c].urls) :
      i # j => cyc[c].urls[i].url # cyc[c].urls[j].url

\* a list was built from a descriptor whose proxied direct URL is its play URL
\* and whose original input is its direct URL: two entries were left out
C1_Witness ==
  /\ cyc[1].urls # <<>>
  /\ cyc[1].info.playURL = buildProxy(cyc[1].info.directURL)
  /\ cyc[1].info.url = cyc[1].info.directURL
  /\ Len(cyc[1].urls) = 2

\* C2: the candidates are assigned to the sink in index order from 0; when
\* attempt i has reported success, the sink was given candidates 0..i and no
\* other, and the outcome carries the URL, index and label of candidate i.
C2_OrderAndHalt ==
  \A c \in Cycles :
    LET r == cyc[c] IN
    /\ IsPrefix(r.assigned, UrlsOf(r))
    /\ (r.outcome.settled /\ r.outcome.success) =>
         /\ r.ok
         /\ r.outcome.tryIndex = r.idx
         /\ Len(r.assigned) = r.idx + 1
         /\ r.outcome.usedUrl = r.urls[r.idx + 1].url
         /\ r.outcome.label = r.urls[r.idx + 1].label

\* the third candidate of a list of four has won
C2_Witness ==
  /\ cyc[1].outcome.success
  /\ cyc[1].outcome.tryIndex = 2
  /\ Len(cyc[1].urls) = 4

\* C3 (as claimed): a call of tryLoadWithFallback never ends in a rejection.
C3_NeverRejects == \A c \in Cycles : cyc[c].pc # "rejected"

\* C8 (as claimed): with fair timers every call of tryLoadWithFallback
\* eventually returns an outcome, success or exhaustion.
C8_EventuallySettles == <>(cyc[1].outcome.settled)

\* a newer load has begun its work
Superseded(c) == \E d \in Cycles : d > c /\ cyc[d].pc \notin {"idle", "returned"}

\* C4 (as claimed): the continuation of a load cycle that a newer load has
\* superseded changes neither current media, nor the sink's URL, nor rangeOK,
\* nor the history.
C4_StaleDiscarded ==
  [][\A c \in Cycles :
       (Next1(c) /\ Superseded(c)) =>
         (cur' = cur /\ sinkSrc' = sinkSrc /\ rangeOK' = rangeOK /\ history' = history)]_vars

\* the resolve endpoint answered resolved: true with a note containing "encrypted"
EncryptedAnswer(r) ==
  r.seen = "body" /\ r.body.json /\ r.body.resolved /\ IncludesEncrypted(r.body.note)

\* the cycle gave the sink nothing and is, or is about to be, hard-blocked
Blocked(r) ==
  /\ r.assigned = <<>>
  /\ r.hlsSrc = NoUrl
  /\ r.urls = <<>>
  /\ r.pc \in {"resolved", "done_err"}
  /\ r.pc = "done_err" => r.notice.title = "Cannot play MEGA"

C6_Claim ==
  \A c \in Cycles :
    (cyc[c].pc # "idle" /\ parseInput(cyc[c].raw).kind = "none") =>
      (cyc[c].notice.title # "" /\ cyc[c].net = 0)

Fails(m) == SelectSeq(m, LAMBDA l : l.kind = "fail")

\* the codec warning w stands before every failure line of m
WarningFirst(m, w) ==
  \E i \in 1..Len(m) :
    /\ m[i].kind = "codec-warning" /\ m[i].label = w
    /\ \A j \in 1..Len(m) : m[j].kind = "fail" => i < j

\* the download directive stands after every failure line of m
DirectiveLast(m) ==
  \E i \in 1..Len(m) :
    /\ m[i].kind = "download"
    /\ \A j \in 1..Len(m) : m[j].kind = "fail" => j < i

\* C7: when every candidate has failed the outcome is success = false and its
\* diagnostic holds one failure line per candidate, in attempt order, each with
\* the candidate's label; the codec warning precedes them exactly when the
\* advisor said canPlay = false; the download directive follows them; and
\* loadMedia shows the diagnostic as the error "Cannot play".
C7_ExhaustedDiagnostic ==
  \A c \in Cycles :
    LET r == cyc[c]
        m == r.outcome.error
    IN
    /\ (r.urls # <<>> /\ Len(r.errors) = Len(r.urls)) =>
         (r.outcome.settled /\ ~r.outcome.success)
    /\ (r.outcome.settled /\ ~r.outcome.success) =>
         /\ Len(Fails(m)) = Len(r.urls)
         /\ \A i \in 1..Len(r.urls) : Fails(m)[i].label = r.urls[i].label
         /\ IsPrefix(r.assigned, UrlsOf(r)) /\ Len(r.assigned) = Len(r.urls)
         /\ ~r.info.codecInfo.canPlay => WarningFirst(m, r.info.codecInfo.warning)
         /\ r.info.codecInfo.canPlay => \A i \in 1..Len(m) : m[i].kind # "codec-warning"
         /\ DirectiveLast(m)
         /\ r.pc \in {"chain_ret", "done_err"}
         /\ r.pc = "done_err" => (r.notice.title = "Cannot play" /\ IsPrefix(m, r.notice.msg))

\* three candidates of an AVI source have failed and the error is shown
C7_Witness ==
  \E c \in Cycles :
    /\ cyc[c].pc = "done_err"
    /\ cyc[c].notice.title = "Cannot play"
    /\ ~cyc[c].info.codecInfo.canPlay
    /\ Len(cyc[c].urls) = 3

\* callResolve met a failure: status, transport, abort, body, or a body that
\* is not JSON or lacks resolved: true or url
ResolveFailed(r) ==
  \/ r.seen \in {"status", "network", "abort", "bodyerr"}
  \/ r.seen = "body" /\ ~(r.body.json /\ r.body.resolved /\ r.body.url # NoUrl)

ChainAttempted(r) == r.pc = "chain_call" \/ r.urls # <<>>

\* C9 (as claimed): after any resolve failure callResolve returns nothing, the
\* descriptor's playURL is the proxy-wrapped original URL and the fallback
\* chain is attempted.
C9_Claim ==
  \A c \in Cycles :
    LET r == cyc[c] IN
    ResolveFailed(r) =>
      /\ ~r.rv.ok
      /\ r.info.kind = "url" =>
           /\ r.info.playURL = buildProxy(parseInput(r.raw).url)
           /\ ChainAttempted(r)

\* the URL resolveMedia streams when resolution failed: the file API URL of
\* the cache id when one was extracted, else the normalized input
DirectOf(parsed) == IF parsed.pdId # "" THEN PdApiUrl(parsed.pdId) ELSE parsed.url

\* C9 (amended): after any resolve failure callResolve returns nothing and the
\* cycle goes on: playURL is the proxy-wrapped direct URL (the file API URL of
\* the cache id when one was extracted, else the original URL), and unless
\* that URL is an HLS manifest the fallback chain is attempted, playURL first.
C9_SoftFail ==
  \A c \in Cycles :
    LET r == cyc[c] IN
    ResolveFailed(r) =>
      /\ ~r.rv.ok
      /\ r.pc \notin {"resolve_fetch", "resolve_body"}
      /\ r.notice.title \notin {"Resolve error", "Invalid URL", "Cannot play MEGA"}
      /\ r.info.kind = "url" =>
           /\ r.info.directURL = DirectOf(parseInput(r.raw))
           /\ r.info.playURL = buildProxy(r.info.directURL)
           /\ ~isHLSUrl(r.info.directURL) =>
                (ChainAttempted(r) /\ (r.urls # <<>> => r.urls[1].url = r.info.playURL))

\* the resolve call was aborted at its deadline and the chain has run
C9_Witness ==
  \E c \in Cycles :
    /\ cyc[c].seen = "abort"
    /\ cyc[c].info.needsResolve
    /\ Len(cyc[c].assigned) >= 2

\* C10 (as claimed): once the 15 s deadline of a resolve call has passed, no
\* part of its request is still active.
C10_Claim == \A c \in Cycles : cyc[c].late => ~cyc[c].req

\* C11 (as claimed): detectRangeSupport answers true or unknown (null), never
\* false: a completed response without a range signal yields unknown.
C11_Claim == \A c \in Cycles : cyc[c].rs \in {"", "true", "null"}

\* C12 (as claimed): the 900 ms check of a speculative seek restores the
\* pre-seek position and emits the notice whenever the position then differs
\* from the target by more than 2 seconds.
C12_Claim ==
  [][(seekTimers # <<>> /\ seekTimers' = Tail(seekTimers)
      /\ Abs(vpos - Head(seekTimers).t) > SEEK_TOLERANCE)
     => (vpos' = Head(seekTimers).before /\ toasts' = toasts + 1)]_vars

\* C12 (amended): the 900 ms check of a speculative seek restores the
\* pre-seek position and emits the notice whenever, at that time, the position
\* differs from the target by more than 2 seconds, the target is still outside
\* every buffered interval and range support is still unconfirmed; otherwise
\* it changes nothing.
C12_Revert ==
  [][(seekTimers # <<>> /\ seekTimers' = Tail(seekTimers))
     => IF /\ Abs(vpos - Head(seekTimers).t) > SEEK_TOLERANCE
           /\ Head(seekTimers).t \notin vbuf
           /\ ~rangeOK
        THEN vpos' = Head(seekTimers).before /\ toasts' = toasts + 1
        ELSE vpos' = vpos /\ toasts' = toasts]_vars

\* a check has reverted a seek that the stream did not follow
C12_Witness == toasts = 1 /\ seekTimers = <<>> /\ ~rangeOK /\ vbuf = {0, 1} /\ vpos = 1

\* C13 (as claimed): the title of a descriptor is the resolution filename when
\* there is one, else the cached-metadata name when there is one, else the
\* guess from the URL path, else the provider name.
C13_Claim ==
  \A c \in Cycles :
    LET r == cyc[c]
        parsed == parseInput(r.raw)
    IN r.info.kind = "url" =>
         r.info.title =
           IF r.info.resolved /\ r.rv.filename # "" THEN r.rv.filename
           ELSE IF r.pdMeta.name # "" THEN r.pdMeta.name
           ELSE guessName(parsed.url, parsed.provider)

\* C14: the play URL of a descriptor follows the decision table in order:
\* the proxy-wrapped direct URL when the host needs resolution or a cache id
\* was extracted; else the proxy-wrapped direct URL when the direct URL is an
\* HLS manifest; else the direct URL itself.  So it is always the direct URL
\* or its proxy-wrapped form.
C14_PlayUrlTable ==
  \A c \in Cycles :
    LET i == cyc[c].info
        parsed == parseInput(cyc[c].raw)
        viaProxy == hostNeedsResolve(parsed.url) \/ parsed.pdId # ""
    IN i.kind = "url" =>
         /\ viaProxy => i.playURL = buildProxy(i.directURL)
         /\ (~viaProxy /\ isHLSUrl(i.directURL)) => i.playURL = buildProxy(i.directURL)
         /\ (~viaProxy /\ ~isHLSUrl(i.directURL)) => i.playURL = i.directURL
         /\ i.playURL \in {i.directURL, buildProxy(i.directURL)}
         /\ buildProxy(i.directURL) # i.directURL

\* a manifest on a host that needs no resolution is played through the proxy
C14_Witness ==
  \E c \in Cycles :
    /\ cyc[c].info.kind = "url"
    /\ ~cyc[c].info.needsResolve
    /\ cyc[c].info.pdId = ""
    /\ isHLSUrl(cyc[c].info.directURL)
    /\ cyc[c].info.playURL = buildProxy(cyc[c].info.directURL)
    /\ cyc[c].hlsSrc = cyc[c].info.playURL

\* the rules of the provider table whose keyword occurs in host name h
Matching(h) == {i \in 1..Len(ProviderRules) : ProviderRules[i].keys \cap Keywords(h) # {}}

ProviderTags == {ProviderRules[i].tag : i \in 1..Len(ProviderRules)} \cup {"HLS", "DASH", "Direct"}

\* C15: detectProvider returns exactly one tag for every text: the tag of the
\* first rule, in table order, whose keyword occurs in the host name (a
\* mega.nz host gives MEGA, and hostNeedsResolve is true for it); when no
\* rule matches, HLS or DASH by the shape of the text and otherwise Direct,
\* also for a text that does not parse as a URL.
C15_ProviderTotal ==
  call.fn = "detectProvider" =>
    LET h == HostOf(call.input) IN
    /\ call.provider \in ProviderTags
    /\ Matching(h) # {} =>
         \E i \in Matching(h) :
           /\ \A j \in Matching(h) : i <= j
           /\ call.provider = ProviderRules[i].tag
    /\ Matching(h) = {} =>
         call.provider = IF isHLSUrl(call.input) THEN "HLS"
                         ELSE IF isDASHUrl(call.input) THEN "DASH" ELSE "Direct"
    /\ ~Parses(call.input) => (h = "" /\ call.provider \in {"HLS", "DASH", "Direct"} /\ ~call.needs)
    /\ (call.input.w = 0 /\ call.input.sch \in {"http://", "https://"} /\ call.input.h = "mega.nz")
         => (call.provider = "MEGA" /\ call.needs)

\* a host name that two rules match gets the tag of the earlier rule
C15_Witness ==
  /\ call.fn = "detectProvider"
  /\ HostOf(call.input) = "doodstreamwish.com"
  /\ Cardinality(Matching("doodstreamwish.com")) = 2
  /\ call.provider = "DoodStream"

\* the extension of a file name or URL, whether or not it is an absolute URL
NameExt(u) == IF u.w > 0 THEN "" ELSE IF u.p = "/f.torrent?x=1" THEN "torrent" ELSE ExtOfPath(u.p)

\* C16 (as claimed): for every name or URL whose extension is avi, flv or wmv,
\* bare file name or absolute URL, detectCodecSupport returns canPlay = false
\* with a warning; for a plain mp4 name without mime hint it returns
\* canPlay = true and no warning.
C16_Claim ==
  call.fn = "detectCodecSupport" =>
    /\ NameExt(call.input) \in {"avi", "flv", "wmv"} =>
         (~call.codec.canPlay /\ call.codec.warning # "")
    /\ (call.input.p \in {"/v.mp4", "/r.mp4"} /\ call.input.w = 0 /\ call.mime = "") =>
         (call.codec.canPlay /\ call.codec.warning = "")

\* the trimmed text starts with "magnet:", or ends in .torrent, optionally
\* followed by a query or fragment
TorrentLocator(u) ==
  \/ u.w = 0 /\ u.sch = "magnet:"
  \/ u.w = 0 /\ u.p \in {"/f.torrent", "/f.torrent?x=1"}
  \/ u.w > 0 /\ u.p = "/f.torrent"

\* C17: every text that starts with the magnet scheme, or ends in .torrent
\* optionally followed by a query or fragment, is classified as a torrent: the
\* trimmed text is both the torrent identifier and the direct-URL placeholder,
\* it is not https-normalized and the provider is Torrent.
C17_TorrentKind ==
  (call.fn = "parseInput" /\ TorrentLocator(call.input)) =>
    /\ call.parsed.kind = "torrent"
    /\ call.parsed.torrentId = trim(call.input)
    /\ call.parsed.directURL = trim(call.input)
    /\ call.parsed.directURL.sch = call.input.sch
    /\ call.parsed.provider = "Torrent"
    /\ call.parsed.url = NoUrl

\* a scheme-less .torrent text with a query and surrounding white space
C17_Witness ==
  /\ call.fn = "parseInput"
  /\ call.input = Str(TRUE, 0, "", "cdn.example", "/f.torrent?x=1")
  /\ call.parsed.kind = "torrent"
  /\ call.parsed.directURL = Str(FALSE, 0, "", "cdn.example", "/f.torrent?x=1")

\* the trimmed text has an http:// or https:// scheme
HttpText(u) == u.w > 0 \/ u.sch \in {"http://", "https://"}

BlobText(u) == u.w = 0 /\ u.sch = "blob:"

\* C18 (as claimed): for every non-empty text without http(s) scheme that is
\* not a blob handle, the classifier's URL starts with https://; a text with
\* such a scheme, or a blob handle, is left as it is (trimmed).
C18_Claim ==
  (call.fn = "parseInput" /\ ~IsBlank(trim(call.input))) =>
    IF ~HttpText(call.input) /\ ~BlobText(call.input)
    THEN call.parsed.directURL.sch = "https://" /\ ~call.parsed.directURL.ws
    ELSE call.parsed.directURL = trim(call.input)

\* C18 (amended): for every non-empty text that is not a torrent locator, has
\* no http(s) scheme and is not a blob handle, the classifier's URL is
\* "https://" followed by the trimmed text; a non-torrent text with such a
\* scheme, or a blob handle, is left as it is (trimmed).  Torrent locators are
\* never normalized.
C18_Normalized ==
  (call.fn = "parseInput" /\ ~IsBlank(trim(call.input)) /\ ~TorrentLocator(call.input)) =>
    /\ call.parsed.kind = "url"
    /\ call.parsed.url = call.parsed.directURL
    /\ IF ~HttpText(call.input) /\ ~BlobText(call.input)
       THEN /\ call.parsed.url.sch = "https://"
            /\ ~call.parsed.url.ws
            /\ call.parsed.url.w = 0
            /\ call.input.h # "" => (call.parsed.url.h = call.input.h /\ call.parsed.url.p = call.input.p)
       ELSE call.parsed.url = trim(call.input)

\* a scheme-less text is prefixed
C18_Witness ==
  /\ call.fn = "parseInput"
  /\ call.input = Str(TRUE, 0, "", "cdn.example", "/v.mp4")
  /\ call.parsed.url = Str(FALSE, 0, "https://", "cdn.example", "/v.mp4")

\* C19 (as claimed): two resolve cycles of the same input yield the same
\* descriptor id, whether or not the resolve call succeeds in each.
C19_Claim ==
  \A c, d \in Cycles :
    (cyc[c].info.kind = "url" /\ cyc[d].info.kind = "url" /\ cyc[c].raw = cyc[d].raw)
      => cyc[c].info.id = cyc[d].info.id

\* the load of a PixelDrain link that cycle c starts in this step
StartsPdLoad(c) ==
  /\ cyc[c].pc = "idle"
  /\ cyc'[c].pc # "idle"
  /\ parseInput(cyc'[c].raw).pdId # ""

\* C20: when a load asks for the metadata of a file, the stored entry is
\* handed out, with no request, exactly when fewer than 7 days have passed
\* since it was stored; with an older entry or none the load sends a request
\* to the info endpoint.
C20_CacheTtl ==
  [][\A c \in Cycles :
       StartsPdLoad(c) =>
         IF pdCache.hit /\ now - pdCache.ts < 7
         THEN /\ cyc'[c].pc = "after_meta"
              /\ cyc'[c].pdMeta = pdCache
              /\ cyc'[c].net = cyc[c].net
         ELSE /\ cyc'[c].pc = "meta_wait"
              /\ cyc'[c].net = cyc[c].net + 1]_vars

\* one load was handed the stored entry (the metadata of a request carries
\* no ts) and went on to the resolve call, and a later load, eight days
\* after that entry was stored, waits for its metadata request
C20_Witness ==
  \E c, d \in Cycles :
    /\ cyc[c].pc = "resolve_fetch" /\ cyc[c].pdMeta = pdCache
    /\ pdCache.hit /\ pdCache.ts # 0
    /\ cyc[d].pc = "meta_wait" /\ cyc[d].net = 1
    /\ now - pdCache.ts = 8

\* C21 (as claimed): at most one load attempt is in flight against the sink
\* (its listeners registered, its timer armed), whatever loads are requested.
C21_Claim == Len(listeners) <= 1

\* the attempt of cycle c has its listeners on the sink and its timer armed
OnSink(c) == \E i \in 1..Len(listeners) : listeners[i] = c

\* the attempt of cycle c waits for its outcome
Waiting(c) == cyc[c].pc = "attempt"

\* a ready signal, an error event or a timer of some attempt
Signal ==
  \/ \E sig \in {"loadedmetadata", "canplay"}, seekable \in BOOLEAN : SinkReady(sig, seekable)
  \/ \E code \in ErrorCodes : SinkError(code)
  \/ \E d \in Cycles : AttemptTimeout(d)

ReadySignals(c) ==
  IF cyc[c].kind = "chain" THEN {"canplay", "loadeddata", "loadedmetadata"}
  ELSE {"canplay", "loadeddata"}

C23_Claim ==
  \A c \in Cycles :
    (cur.kind = "url" /\ cur.owner = c /\ ~isHLSUrl(cur.directURL) /\ rangeOK)
      => cyc[c].rs = "true"

Full(info) ==
  <<info.playURL, info.directURL, buildProxy(info.directURL), buildProxy(info.url)>>

\* entry i of the ordering is in the list: it exists (the play URL and the
\* direct URL may be absent), no entry kept before it is the same string,
\* and the last one needs an original input other than the direct URL
RECURSIVE Kept(_, _)
Kept(info, i) ==
  /\ (i \in {1, 2} => Full(info)[i] # NoUrl)
  /\ (i = 4 => info.url # info.directURL)
  /\ \A j \in 1..(i - 1) : ~(Kept(info, j) /\ Full(info)[j] = Full(info)[i])

RECURSIVE KeptFrom(_, _)
KeptFrom(info, i) ==
  IF i > 4 THEN <<>>
  ELSE (IF Kept(info, i) THEN <<Full(info)[i]>> ELSE <<>>) \o KeptFrom(info, i + 1)

\* C25: the candidate list is the subsequence of <<play URL, direct URL,
\* proxy-wrapped direct URL, proxy-wrapped original input>>, in this order,
\* that leaves out an absent play or direct URL, every entry equal to one
\* kept before it, and the last entry when the original input is the direct
\* URL; so the play URL is first whenever it exists.
C25_ChainOrder ==
  \A c \in Cycles :
    cyc[c].urls # <<>> =>
      /\ UrlsOf(cyc[c]) = KeptFrom(cyc[c].info, 1)
      /\ (cyc[c].info.playURL # NoUrl => cyc[c].urls[1].url = cyc[c].info.playURL)

\* a list of three: play URL, direct URL and proxy-wrapped original input
\* are kept, the proxy-wrapped direct URL is left out as it is the play URL
C25_Witness ==
  \E c \in Cycles :
    /\ Len(cyc[c].urls) = 3
    /\ cyc[c].info.playURL = buildProxy(cyc[c].info.directURL)
    /\ cyc[c].info.url # cyc[c].info.directURL
    /\ cyc[c].urls[3].url = buildProxy(cyc[c].info.url)

\* C26 (as claimed): every candidate of a list built by tryLoadWithFallback
\* carries one of the labels primary, direct, proxy-fallback, proxy-original.
C26_Claim ==
  \A c \in Cycles :
    \A i \in 1..Len(cyc[c].urls) :
      cyc[c].urls[i].label \in {"primary", "direct", "proxy-fallback", "proxy-original"}

\* C27: the warning of a resolved descriptor is the encrypted-content
\* warning whenever the resolution result carries a note containing
\* "encrypted", whatever the codec advisor reports; otherwise it is the
\* codec advisor's warning (none if the advisor has none).
C27_WarningPrecedence ==
  \A c \in Cycles :
    cyc[c].info.kind = "url" =>
      cyc[c].info.warning =
        IF cyc[c].info.resolved /\ cyc[c].rv.note \in {"AES encrypted"}
        THEN MegaWarning
        ELSE cyc[c].info.codecInfo.warning

\* a descriptor whose resolution note says encrypted and whose codec advisor
\* has a warning of its own: the encrypted warning is the one kept
C27_Witness ==
  \E c \in Cycles :
    /\ cyc[c].info.kind = "url"
    /\ cyc[c].info.resolved
    /\ cyc[c].rv.note = "AES encrypted"
    /\ cyc[c].info.codecInfo.warning \notin {"", MegaWarning}
    /\ cyc[c].info.warning = MegaWarning

\* the record of detectCodecSupport after its first k rules, in code order
RECURSIVE RuleStep(_, _, _, _)
RuleStep(k, u, mimeType, caps) ==
  IF k = 0 THEN BlankInfo(getExt(u))
  ELSE LET i == RuleStep(k - 1, u, mimeType, caps) IN
       CASE k = 1 -> HevcMimeRule(i, mimeType, caps)
         [] k = 2 -> MatroskaMimeRule(i, mimeType)
         [] k = 3 -> MkvRule(i, getExt(u), caps)
         [] k = 4 -> UnsupportedRule(i, getExt(u), "avi", "AVI", AviWarning)
         [] k = 5 -> UnsupportedRule(i, getExt(u), "flv", "FLV", FlvWarning)
         [] k = 6 -> UnsupportedRule(i, getExt(u), "wmv", "WMV", WmvWarning)
         [] k = 7 -> HevcNameRule(i, u, caps)
         [] OTHER -> TenBitRule(i, u)

\* C28: within a call of detectCodecSupport, once a rule has set a warning
\* every later rule leaves a warning in place (it may replace it by another),
\* so the record returned has one; for every mime type, name and answer of
\* the sink.
C28_WarningMonotone ==
  call.fn = "detectCodecSupport" =>
    /\ call.codec = RuleStep(8, call.input, call.mime, call.caps)
    /\ \A j \in 0..7 :
         RuleStep(j, call.input, call.mime, call.caps).warning # ""
           => RuleStep(j + 1, call.input, call.mime, call.caps).warning # ""

\* the HEVC warning set from the mime type has gone through the Matroska
\* rule, which would have set its own, and is the one returned
C28_Witness ==
  /\ call.fn = "detectCodecSupport"
  /\ call.mime = "video/hevc" /\ ~call.caps.hevc
  /\ getExt(call.input) = "mkv" /\ call.caps.mkv
  /\ call.codec.container = "MKV"
  /\ call.codec.warning = HevcWarning

\* C29: a warning of the codec advisor never stops a load by itself: for
\* every descriptor that is not HLS, has a codec warning or canPlay = false
\* and no encrypted warning, loadMedia has emitted the warning as a format
\* warning, made the media current and started the fallback chain.
C29_AdvisoryOnly ==
  \A c \in Cycles :
    LET info == cyc[c].info IN
    (/\ info.kind = "url"
     /\ ~isHLSUrl(info.directURL)
     /\ (info.codecInfo.warning # "" \/ ~info.codecInfo.canPlay)
     /\ info.warning \notin {MegaWarning})
      => /\ ChainAttempted(cyc[c])
         /\ cyc[c].warned = info.codecInfo.warning
         /\ cyc[c].notice.title # "Cannot play MEGA"

\* an AVI file, which the advisor says cannot play: the warning was emitted
\* and the first candidate was given to the sink all the same
C29_Witness ==
  \E c \in Cycles :
    /\ cyc[c].info.kind = "url"
    /\ ~cyc[c].info.codecInfo.canPlay
    /\ cyc[c].warned = AviWarning
    /\ cyc[c].assigned # <<>>

\* C30: an answer of the info endpoint that yields metadata is stored in the
\* cache, stamped with the time of the answer, in the step that hands the
\* metadata to the waiting load, so a load of the same id less than 7 days
\* later is handed the stored entry without a request; an answer that fails
\* (status, network, body) hands over no metadata, lets the load go on, and
\* leaves the cache as it was. Nothing else writes the cache.
C30_WriteBack ==
  [][/\ \A c \in Cycles, m \in Metas \cup {NoMeta} :
          (MetaResponse(c, m) \/ MetaLate(c, m)) =>
            /\ pdCache' = IF m.hit THEN [m EXCEPT !.ts = now] ELSE pdCache
            /\ m.hit => (pdCache'.hit /\ pdCache'.ts # 0 /\ now - pdCache'.ts < 7)
            /\ MetaResponse(c, m) =>
                 (cyc'[c].pc = "after_meta" /\ cyc'[c].pdMeta = m)
     /\ pdCache' # pdCache =>
          \E c \in Cycles, m \in Metas : MetaResponse(c, m) \/ MetaLate(c, m)
     /\ \A c \in Cycles :
          (StartsPdLoad(c) /\ pdCache.hit /\ pdCache.ts # 0 /\ now - pdCache.ts < 7)
            => (cyc'[c].pdMeta = pdCache /\ cyc'[c].net = cyc[c].net)]_vars

\* a first load found no entry and fetched the metadata; a later load was
\* handed the entry that fetch stored, two days after, with no request
C30_Witness ==
  /\ cyc[1].pdMeta.hit /\ cyc[1].pdMeta.ts = 0
  /\ cyc[2].pdMeta = pdCache /\ pdCache.hit
  /\ pdCache = [cyc[1].pdMeta EXCEPT !.ts = 2]
  /\ cyc[2].pc = "after_meta" /\ cyc[2].net = 0
  /\ now = 4

\* C31 (as claimed): with two checks pending, the check of the earlier seek
\* leaves the position alone when it is where the later seek landed.
C31_Claim ==
  [][(/\ Len(seekTimers) >= 2
      /\ seekTimers' = Tail(seekTimers)
      /\ vpos = seekTimers[Len(seekTimers)].t)
     => vpos' = vpos]_vars

\* C32 (as claimed): a load asked with fromHistory, of an item whose stored
\* position is past 5 s, that has succeeded has armed the resume timer with
\* that stored position.
C32_Claim ==
  \A c \in Cycles :
    (/\ cyc[c].pc = "done_ok"
     /\ cyc[c].fromHistory
     /\ getPos(StoredHistory, cyc[c].info.id) > 5)
      => cyc[c].resume = getPos(StoredHistory, cyc[c].info.id)

\* ------------------------------------------------------------ restoreAfterReplace
\* restoreAfterReplace (lines 881): the URL the current media is reloaded from
restoreUrl(c) ==
  IF c.playURL # NoUrl THEN c.playURL
  ELSE IF c.directURL # NoUrl THEN c.directURL
  ELSE c.url

\* C33: after the fallback chain succeeded with a candidate other than the
\* first, the URL restoreAfterReplace reloads the current media from is the
\* winning URL of the chain, never a candidate that failed before it.
C33_Claim ==
  \A c \in Cycles :
    (/\ cyc[c].pc = "done_ok"
     /\ cur.owner = c
     /\ cyc[c].outcome.success
     /\ cyc[c].outcome.tryIndex > 0)
      => /\ restoreUrl(cur) = cyc[c].outcome.usedUrl
         /\ \A i \in 1..cyc[c].outcome.tryIndex : restoreUrl(cur) # cyc[c].urls[i].url

\* ------------------------------------------------------- pause during a seek
\* History.updateProgress (part_000 lines 911-921): the first entry of the id
updateProgress(list, id, pos) ==
  IF \E i \in 1..Len(list) : list[i].id = id
  THEN LET k == CHOOSE i \in 1..Len(list) :
                  list[i].id = id /\ \A j \in 1..(i - 1) : list[j].id # id
       IN [list EXCEPT ![k].pos = pos]
  ELSE list

\* forceSave (lines 200-202)
forceSave ==
  IF cur.kind # "none" /\ vdur >= 0 THEN updateProgress(history, cur.id, vpos) ELSE history

\* no seek is in progress, no event waits and no resume callback is scheduled
Settled == ~seeking /\ events = <<>> /\ resumeCbs = 0

\* media plays or pauses on the sink, its load is over
InitPlay ==
  /\ env = [hlsjs |-> TRUE, nativeHls |-> FALSE, hevc |-> FALSE, mkv |-> TRUE, webm |-> TRUE]
  /\ cur = CurOf(1, resolveMedia(CdnV, NoMeta, NoResolve, env))
  /\ rangeOK = TRUE
  /\ hls = 0
  /\ autoSave = TRUE
  /\ history = <<Item(cur.id, 0)>>
  /\ pdCache = NoMeta
  /\ sinkSrc = CdnV
  /\ sinkErr = 0
  /\ listeners = <<>>
  /\ cyc = [c \in Cycles |->
              IF c = 1
              THEN [CycleInit EXCEPT !.pc = "done_ok", !.raw = CdnV,
                                     !.info = resolveMedia(CdnV, NoMeta, NoResolve, env),
                                     !.urls = BuildChain(resolveMedia(CdnV, NoMeta, NoResolve, env)),
                                     !.assigned = <<CdnV>>, !.ok = TRUE,
                                     !.outcome = Success([urls |-> BuildChain(resolveMedia(CdnV, NoMeta, NoResolve, env)), idx |-> 0]),
                                     !.rs = "true", !.net = 1]
              ELSE CycleInit]
  /\ started = MaxCycles
  /\ mq = <<>>
  /\ world = [inputs |-> {}, bodies |-> {}, fromHistory |-> FALSE]
  /\ vpos = 0
  /\ vdur = MaxPos
  /\ vbuf = {0, 1}
  /\ seekTimers = <<>>
  /\ toasts = 0
  /\ lastSeek = "none"
  /\ now = 1
  /\ call = NoCall
  /\ paused \in BOOLEAN
  /\ seekResumeWanted = FALSE
  /\ internalSeekPause = FALSE
  /\ seeking = FALSE
  /\ events = <<>>
  /\ resumeCbs = 0
  /\ wasPlaying = FALSE
  /\ seeksBegun = 0
  /\ resetAt = -1
  /\ NoAB
  /\ NoStores

\* doSeek(t) (lines 228-231): the element starts a seek, a seek in progress is
\* abandoned, and the seeking event is queued
doSeek(t) ==
  /\ seeksBegun < MaxSeeks + 1
  /\ seeksBegun' = seeksBegun + 1
  /\ vpos' = t
  /\ seeking' = TRUE
  /\ events' = Append(events, "seeking")
  /\ wasPlaying' = IF Settled THEN ~paused ELSE wasPlaying
  /\ UNCHANGED <<load, vdur, vbuf, seekTimers, toasts, lastSeek, now, call, resetAt, stores, ab,
                 paused, seekResumeWanted, internalSeekPause, resumeCbs>>

\* the element finishes the seek in progress and queues the seeked event
SeekCompletes ==
  /\ seeking
  /\ seeking' = FALSE
  /\ events' = Append(events, "seeked")
  /\ UNCHANGED <<load, seeker, now, call, resetAt, stores, ab,
                 paused, seekResumeWanted, internalSeekPause, resumeCbs, wasPlaying, seeksBegun>>

\* the seeking handler (lines 120-131): a playing element is paused for the seek
OnSeeking ==
  /\ events # <<>> /\ Head(events) = "seeking"
  /\ IF sinkSrc = NoUrl
       THEN /\ events' = Tail(events)
            /\ UNCHANGED <<paused, seekResumeWanted, internalSeekPause>>
       ELSE IF ~paused
              THEN /\ seekResumeWanted' = TRUE
                   /\ internalSeekPause' = TRUE
                   /\ paused' = TRUE
                   /\ events' = Append(Tail(events), "pause")
              ELSE /\ seekResumeWanted' = FALSE
                   /\ events' = Tail(events)
                   /\ UNCHANGED <<paused, internalSeekPause>>
  /\ UNCHANGED <<load, seeker, now, call, resetAt, stores, ab,
                 seeking, resumeCbs, wasPlaying, seeksBegun>>

\* the pause handler (lines 93-98): the seek's own pause is swallowed
OnPause ==
  /\ events # <<>> /\ Head(events) = "pause"
  /\ events' = Tail(events)
  /\ IF internalSeekPause
       THEN /\ internalSeekPause' = FALSE
            /\ UNCHANGED history
       ELSE /\ history' = forceSave
            /\ UNCHANGED internalSeekPause
  /\ UNCHANGED <<cyc, started, mq, cur, rangeOK, hls, autoSave, pdCache, sink, env, world,
                 seeker, now, call, resetAt, stores, ab, paused, seekResumeWanted, seeking, resumeCbs,
                 wasPlaying, seeksBegun>>

\* the seeked handler (lines 133-144): resume is scheduled for the next frame
OnSeeked ==
  /\ events # <<>> /\ Head(events) = "seeked"
  /\ events' = Tail(events)
  /\ resumeCbs' = resumeCbs + 1
  /\ UNCHANGED <<load, seeker, now, call, resetAt, stores, ab,
                 paused, seekResumeWanted, internalSeekPause, seeking, wasPlaying, seeksBegun>>

\* the resume callback (lines 134-138)
Resume ==
  /\ resumeCbs > 0
  /\ resumeCbs' = resumeCbs - 1
  /\ paused' = IF seekResumeWanted THEN FALSE ELSE paused
  /\ seekResumeWanted' = FALSE
  /\ UNCHANGED <<load, seeker, now, call, resetAt, stores, ab,
                 internalSeekPause, seeking, events, wasPlaying, seeksBegun>>

\* togglePlay (lines 259-268); a toggle of the user ends the record of the
\* pending seeks
togglePlay ==
  /\ sinkSrc # NoUrl
  /\ Len(events) < MaxEvents
  /\ paused' = ~paused
  /\ events' = IF paused THEN events ELSE Append(events, "pause")
  /\ wasPlaying' = FALSE
  /\ UNCHANGED <<load, seeker, now, call, resetAt, stores, ab,
                 seekResumeWanted, internalSeekPause, seeking, resumeCbs, seeksBegun>>

NextPlay ==
  \/ \E t \in 0..MaxPos : doSeek(t)
  \/ SeekCompletes
  \/ OnSeeking
  \/ OnPause
  \/ OnSeeked
  \/ Resume
  \/ togglePlay

SpecPlay == InitPlay /\ [][NextPlay]_vars

\* C34: if the media was playing when a seek began, it plays again once every
\* pending seek has completed, its events are handled and its resume callback
\* has run, whatever the interleaving of the seeking and seeked events.
C34_Claim ==
  (Settled /\ wasPlaying) => ~paused

\* ------------------------------------------------------------- resetPlayer
\* resetPlayer (lines 733-742): stopMedia, then the current media, the range
\* flag and the loop points are cleared; the element is already paused
resetPlayer ==
  /\ Idle
  /\ hls' = 0
  /\ autoSave' = FALSE
  /\ sinkSrc' = NoUrl
  /\ sinkErr' = 0
  /\ cur' = NoCur
  /\ rangeOK' = FALSE
  /\ abA' = NoPoint
  /\ abB' = NoPoint
  /\ abOn' = FALSE
  /\ resetAt' = started
  /\ UNCHANGED <<cyc, started, mq, history, pdCache, listeners, env, world,
                 seeker, now, call, playback, stores>>

\* one load of a file or of a manifest, nothing stored
InitReset ==
  /\ NoAside
  /\ Fresh
  /\ NoSeek
  /\ now = 1
  /\ call = NoCall
  /\ cyc = [c \in Cycles |-> CycleInit]
  /\ started = MaxCycles - 1
  /\ mq = <<>>
  /\ env = [hlsjs |-> TRUE, nativeHls |-> FALSE, hevc |-> FALSE, mkv |-> TRUE, webm |-> TRUE]
  /\ world = [inputs |-> {CdnV, CdnHls}, bodies |-> {}, fromHistory |-> FALSE]

\* a load of a direct link and the reset button
NextReset ==
  \/ \E c \in Cycles, raw \in RawInputs : LoadMedia(c, raw)
  \/ \E c \in Cycles : ContinueResolved(c)
  \/ \E c \in Cycles : AfterChain(c)
  \/ \E c \in Cycles, s \in BOOLEAN, a \in BOOLEAN : ProbeResponse(c, s, a)
  \/ \E c \in Cycles : ProbeFail(c)
  \/ \E c \in Cycles : ContinueProbed(c)
  \/ \E c \in Cycles : HlsManifestParsed(c)
  \/ \E c \in Cycles : HlsFatal(c)
  \/ NextChain
  \/ resetPlayer

SpecReset == InitReset /\ [][NextReset]_vars

\* C35: after resetPlayer, and until loadMedia is called again, the current
\* media stays null, rangeOK stays false, the sink gets no URL and the
\* history is not written: a load cycle in flight changes none of them.
C35_Claim ==
  [][(resetAt = started /\ started' = started)
       => /\ cur' = NoCur
          /\ rangeOK' = FALSE
          /\ sinkSrc' = NoUrl
          /\ history' = history]_vars

\* C36: parseInput extracts a cache id only from a text whose detected provider
\* is PixelDrain; for every other text, a URL that merely holds a pixeldrain
\* path in its path or query included, the id is null.
C36_Claim ==
  (call.fn = "parseInput" /\ call.parsed.kind = "url" /\ call.parsed.provider # "PixelDrain")
    => call.parsed.pdId = ""

\* C37: whatever text, mime type and browser detectCodecSupport is called
\* with, a result with canPlay = false carries a warning, so the diagnostic
\* of an exhausted chain never embeds a null warning.
C37_CannotPlayWarns ==
  (call.fn = "detectCodecSupport" /\ ~call.codec.canPlay) => call.codec.warning # ""

\* reached: the advisor refused a name for its container, another for HEVC
C37_Witness ==
  /\ call.fn = "detectCodecSupport"
  /\ ~call.codec.canPlay
  /\ call.codec.warning = HevcWarning
  /\ call.mime = "video/hevc"

\* ------------------------------------------------------------ History store
\* the id of the n-th entry an earlier session stored: CdnV behind n wraps
StoredId(n) == [CdnV EXCEPT !.w = n]

\* a full store: MAX_HISTORY entries, the newest first
FullHistory == [n \in 1..MAX_HISTORY |-> Item(StoredId(n), 0)]

\* the ids the operations are called with: the newest and the oldest stored
\* entries, and two that are not stored
OpIds == {StoredId(1), StoredId(MAX_HISTORY), StoredId(MAX_HISTORY + 1),
          StoredId(MAX_HISTORY + 2)}

HasId(list, id) == \E i \in 1..Len(list) : list[i].id = id

notHistory == <<cyc, started, mq, cur, rangeOK, hls, autoSave, pdCache, sink, env, world,
                seeker, now, call, playback, resetAt, queue, ab>>

\* the store is empty or full, nothing is loaded
InitHistory ==
  /\ NoAside
  /\ cur = NoCur
  /\ rangeOK = FALSE
  /\ hls = 0
  /\ autoSave = FALSE
  /\ history \in {<<>>, FullHistory}
  /\ pdCache = NoMeta
  /\ sinkSrc = NoUrl
  /\ sinkErr = 0
  /\ listeners = <<>>
  /\ NoSeek
  /\ now = 1
  /\ call = NoCall
  /\ cyc = [c \in Cycles |-> CycleInit]
  /\ started = MaxCycles
  /\ mq = <<>>
  /\ env = [hlsjs |-> TRUE, nativeHls |-> FALSE, hevc |-> FALSE, mkv |-> TRUE, webm |-> TRUE]
  /\ world = [inputs |-> {}, bodies |-> {}, fromHistory |-> FALSE]

\* History.upsert (part_000 lines 902-909)
HistoryUpsert(id) ==
  /\ history' = upsert(history, Item(id, 0))
  /\ lastOp' = [op |-> "History.upsert", id |-> id, ret |-> "", upserted |-> id]
  /\ UNCHANGED notHistory

\* History.updateProgress (lines 911-921)
HistoryUpdateProgress(id, pos) ==
  /\ history' = updateProgress(history, id, pos)
  /\ lastOp' = [lastOp EXCEPT !.op = "History.updateProgress", !.id = id, !.ret = ""]
  /\ UNCHANGED notHistory

\* History.remove (lines 923-925)
HistoryRemove(id) ==
  /\ history' = Remove(history, id)
  /\ lastOp' = [lastOp EXCEPT !.op = "History.remove", !.id = id, !.ret = ""]
  /\ UNCHANGED notHistory

\* History.clear (lines 927-929)
HistoryClear ==
  /\ history' = <<>>
  /\ lastOp' = [lastOp EXCEPT !.op = "History.clear", !.id = NoUrl, !.ret = ""]
  /\ UNCHANGED notHistory

NextHistory ==
  \/ \E id \in OpIds : HistoryUpsert(id)
  \/ \E id \in OpIds, pos \in {0, MaxPos} : HistoryUpdateProgress(id, pos)
  \/ \E id \in OpIds : HistoryRemove(id)
  \/ HistoryClear

SpecHistory == InitHistory /\ [][NextHistory]_vars

\* C38: after any sequence of upsert, updateProgress, remove and clear the
\* history holds at most MAX_HISTORY entries, no two of them share an id, and
\* the entry upserted last, while it is stored, is the first one; an
\* updateProgress for an id that is not stored changes nothing.
C38_HistoryShape ==
  /\ [](/\ Len(history) <= 80
        /\ \A i, j \in 1..Len(history) : history[i].id = history[j].id => i = j
        /\ HasId(history, lastOp.upserted) => history[1].id = lastOp.upserted)
  /\ [][(lastOp'.op = "History.updateProgress" /\ ~HasId(history, lastOp'.id))
          => history' = history]_vars

\* reached: an upsert into the full store pushed the oldest entry out
C38_Witness ==
  /\ lastOp.op = "History.upsert"
  /\ lastOp.id = StoredId(MAX_HISTORY + 1)
  /\ Len(history) = 80
  /\ ~HasId(history, StoredId(MAX_HISTORY))

\* -------------------------------------------------------------- Queue store
\* the ids of the items the queue operations are called with
QueueIds == {CdnV, CdnHls, GoFileX, PdU}

\* q.find(x => x.id === item.id)
Queued(q, id) == \E i \in 1..Len(q) : q[i] = id

\* mutant: the item is pushed whether or not its id is queued
addAlways(q, id) == [list |-> Append(q, id), ret |-> "true"]

\* Queue.add (part_000 lines 956-962): the list stored and the value returned
add(q, id) ==
  IF Queued(q, id) THEN [list |-> q, ret |-> "false"]
  ELSE [list |-> Append(q, id), ret |-> "true"]

notQueue == <<cyc, started, mq, player, pdCache, sink, env, world,
              seeker, now, call, playback, resetAt, ab>>

\* the queue is empty or holds the items of an earlier session
InitQueue ==
  /\ NoPlayback
  /\ resetAt = -1
  /\ NoAB
  /\ queue \in {<<>>, <<CdnV, CdnHls>>}
  /\ lastOp = NoOp
  /\ Fresh
  /\ NoSeek
  /\ now = 1
  /\ call = NoCall
  /\ cyc = [c \in Cycles |-> CycleInit]
  /\ started = MaxCycles
  /\ mq = <<>>
  /\ env = [hlsjs |-> TRUE, nativeHls |-> FALSE, hevc |-> FALSE, mkv |-> TRUE, webm |-> TRUE]
  /\ world = [inputs |-> {}, bodies |-> {}, fromHistory |-> FALSE]

\* Queue.add(item)
QueueAdd(id) ==
  /\ queue' = add(queue, id).list
  /\ lastOp' = [lastOp EXCEPT !.op = "Queue.add", !.id = id, !.ret = add(queue, id).ret]
  /\ UNCHANGED notQueue

\* Queue.remove(id) (lines 964-966)
QueueRemove(id) ==
  /\ queue' = SelectSeq(queue, LAMBDA x : x # id)
  /\ lastOp' = [lastOp EXCEPT !.op = "Queue.remove", !.id = id, !.ret = ""]
  /\ UNCHANGED notQueue

\* Queue.clear (lines 968-970)
QueueClear ==
  /\ queue' = <<>>
  /\ lastOp' = [lastOp EXCEPT !.op = "Queue.clear", !.id = NoUrl, !.ret = ""]
  /\ UNCHANGED notQueue

\* Queue.shift (lines 972-977): first || null
QueueShift ==
  /\ queue' = IF queue = <<>> THEN <<>> ELSE Tail(queue)
  /\ lastOp' = IF queue = <<>>
               THEN [lastOp EXCEPT !.op = "Queue.shift", !.id = NoUrl, !.ret = "null"]
               ELSE [lastOp EXCEPT !.op = "Queue.shift", !.id = Head(queue), !.ret = "item"]
  /\ UNCHANGED notQueue

NextQueue ==
  \/ \E id \in QueueIds : QueueAdd(id)
  \/ \E id \in QueueIds : QueueRemove(id)
  \/ QueueClear
  \/ QueueShift

SpecQueue == InitQueue /\ [][NextQueue]_vars

\* C39: after any sequence of add, remove, shift and clear no two queued items
\* share an id; add of an id that is queued returns false and leaves the queue
\* as it was, add of another id puts the item behind every queued item; shift
\* returns the item queued first, and null on an empty queue.
C39_QueueShape ==
  /\ [](\A i, j \in 1..Len(queue) : queue[i] = queue[j] => i = j)
  /\ [][/\ (lastOp'.op = "Queue.add" /\ Queued(queue, lastOp'.id))
             => (lastOp'.ret = "false" /\ queue' = queue)
        /\ (lastOp'.op = "Queue.add" /\ ~Queued(queue, lastOp'.id))
             => (lastOp'.ret = "true" /\ queue' = Append(queue, lastOp'.id))
        /\ (lastOp'.op = "Queue.shift" /\ queue # <<>>)
             => (lastOp'.ret = "item" /\ lastOp'.id = queue[1] /\ queue' = Tail(queue))
        /\ (lastOp'.op = "Queue.shift" /\ queue = <<>>)
             => (lastOp'.ret = "null" /\ queue' = <<>>)]_vars

\* reached: an add of a queued id was refused
C39_Witness ==
  /\ lastOp.op = "Queue.add"
  /\ lastOp.ret = "false"
  /\ Queued(queue, lastOp.id)
  /\ Len(queue) = 3

\* ----------------------------------------------------------------- A/B loop
\* URL.createObjectURL(file), and the id `local:${sig}` of the file
LocalBlob == Str(FALSE, 0, "blob:", "", "/file")
LocalId == Str(FALSE, 0, "local:", "", "/file")
Magnet == Str(FALSE, 0, "magnet:", "", "/d/x")

\* loadLocalFile lines 603-608
LocalCur(c) ==
  [kind |-> "local", provider |-> "Local", url |-> LocalId, directURL |-> LocalBlob,
   playURL |-> NoUrl, id |-> LocalId, title |-> "/file", owner |-> c]

\* loadLocalFile (lines 594-627) up to its await of tryLoadSrc; file is false
\* for a call without a file
loadLocalFile(c, file) ==
  /\ Idle
  /\ c = started + 1
  /\ cyc[c].pc = "idle"
  /\ started' = c
  /\ UNCHANGED <<mq, history, pdCache, env, world, seeker, now, call, aside>>
  /\ IF ~file
     THEN /\ cyc' = [cyc EXCEPT ![c] = [@ EXCEPT !.pc = "returned", !.loop = abOn]]
          /\ UNCHANGED <<cur, rangeOK, hls, autoSave, sink, ab>>
     ELSE /\ hls' = 0
          /\ autoSave' = FALSE
          /\ cur' = LocalCur(c)
          /\ abA' = NoPoint
          /\ abB' = NoPoint
          /\ abOn' = FALSE
          /\ rangeOK' = TRUE
          /\ \E thr \in SinkThrows :
               /\ sinkSrc' = IF thr = "src" THEN NoUrl ELSE LocalBlob
               /\ sinkErr' = 0
               /\ listeners' = IF thr = "no" THEN Append(listeners, c) ELSE listeners
               /\ cyc' = [cyc EXCEPT ![c] =
                            [@ EXCEPT !.pc = PcAfterStart(thr), !.kind = "local",
                                      !.raw = LocalBlob, !.loop = abOn,
                                      !.assigned = IF thr = "src" THEN @ ELSE Append(@, LocalBlob)]]

\* mutant: the loop is switched on with point A
toggleABEarly ==
  /\ Idle
  /\ sinkSrc # NoUrl
  /\ IF abA = NoPoint
     THEN abA' = vpos /\ abOn' = TRUE /\ abB' = abB
     ELSE IF abB = NoPoint
     THEN abB' = vpos /\ abOn' = TRUE /\ abA' = abA
     ELSE abA' = NoPoint /\ abB' = NoPoint /\ abOn' = FALSE
  /\ UNCHANGED <<load, seeker, now, call, aside>>

\* toggleAB (lines 274-289)
toggleAB ==
  /\ Idle
  /\ sinkSrc # NoUrl
  /\ IF abA = NoPoint
     THEN abA' = vpos /\ UNCHANGED <<abB, abOn>>
     ELSE IF abB = NoPoint
     THEN abB' = vpos /\ abOn' = TRUE /\ abA' = abA
     ELSE abA' = NoPoint /\ abB' = NoPoint /\ abOn' = FALSE
  /\ UNCHANGED <<load, seeker, now, call, aside>>

\* media plays from the sink; one more load may be made
InitAB ==
  /\ NoAside
  /\ env = [hlsjs |-> TRUE, nativeHls |-> FALSE, hevc |-> FALSE, mkv |-> TRUE, webm |-> TRUE]
  /\ cur = CurOf(1, resolveMedia(CdnV, NoMeta, NoResolve, env))
  /\ rangeOK = TRUE
  /\ hls = 0
  /\ autoSave = TRUE
  /\ history = <<Item(cur.id, 0)>>
  /\ pdCache = NoMeta
  /\ sinkSrc = CdnV
  /\ sinkErr = 0
  /\ listeners = <<>>
  /\ cyc = [c \in Cycles |->
              IF c < MaxCycles
              THEN [CycleInit EXCEPT !.pc = "done_ok", !.raw = CdnV,
                                     !.info = resolveMedia(CdnV, NoMeta, NoResolve, env),
                                     !.urls = BuildChain(resolveMedia(CdnV, NoMeta, NoResolve, env)),
                                     !.assigned = <<CdnV>>, !.ok = TRUE,
                                     !.outcome = Success([urls |-> BuildChain(resolveMedia(CdnV, NoMeta, NoResolve, env)), idx |-> 0]),
                                     !.rs = "true", !.net = 1]
              ELSE CycleInit]
  /\ started = MaxCycles - 1
  /\ mq = <<>>
  /\ world = [inputs |-> {NoUrl, CdnV, Magnet}, bodies |-> {}, fromHistory |-> FALSE]
  /\ vpos \in {0, 1}
  /\ vdur = MaxPos
  /\ vbuf = {0, 1}
  /\ seekTimers = <<>>
  /\ toasts = 0
  /\ lastSeek = "none"
  /\ now = 1
  /\ call = NoCall

\* the loop key, the reset button and one more load
NextAB ==
  \/ toggleAB
  \/ resetPlayer
  \/ \E c \in Cycles, raw \in RawInputs : LoadMedia(c, raw)
  \/ \E c \in Cycles, file \in BOOLEAN : loadLocalFile(c, file)
  \/ \E c \in Cycles : ContinueResolved(c)
  \/ \E c \in Cycles : AfterChain(c)
  \/ \E c \in Cycles, s \in BOOLEAN, a \in BOOLEAN : ProbeResponse(c, s, a)
  \/ \E c \in Cycles : ProbeFail(c)
  \/ \E c \in Cycles : ContinueProbed(c)
  \/ NextChain

SpecAB == InitAB /\ [][NextAB]_vars

Cleared == abA = NoPoint /\ abB = NoPoint /\ ~abOn

\* the loop is active exactly when both points are set, and toggleAB goes
\* from no point to A, from A to A and B with the loop active, and from there
\* back to no point
LoopShape ==
  /\ [](abOn <=> (abA # NoPoint /\ abB # NoPoint))
  /\ [][toggleAB =>
          /\ (abA = NoPoint) => (abA' # NoPoint /\ abB' = NoPoint /\ ~abOn')
          /\ (abA # NoPoint /\ abB = NoPoint) => (abA' = abA /\ abB' # NoPoint /\ abOn')
          /\ (abA # NoPoint /\ abB # NoPoint) => Cleared']_vars

\* C40 as stated: the loop is active exactly when both points are set, toggleAB
\* cycles through no point, A, A and B, cleared, and every call of loadMedia,
\* loadLocalFile, loadTorrent and resetPlayer clears the points and the loop.
C40_Claim ==
  /\ LoopShape
  /\ [][(started' # started \/ resetPlayer) => Cleared']_vars

\* C40 (amended): as above, for every call of loadMedia whose text parseInput
\* accepts, every call of loadLocalFile with a file, loadTorrent and resetPlayer.
C40_LoopCleared ==
  /\ LoopShape
  /\ [][((started' # started /\ cyc'[started'].pc # "returned") \/ resetPlayer) => Cleared']_vars

\* reached: a load was called while the loop was active, and the loop is off
C40_Witness ==
  /\ started = MaxCycles
  /\ cyc[MaxCycles].loop
  /\ cyc[MaxCycles].pc \notin {"idle", "returned"}
  /\ Cleared

====
